---------------------------- MODULE Spec2Model ----------------------------
(***************************************************************************)
(* A model of the opkg index builder of OpenWrt-Repo-Manager-Portable      *)
(* (src/opkg_make_index.py): the version comparator (order,                *)
(* Version._versioncompare, Version.compare, parse_version) and the index  *)
(* build (Packages.add_package, to_morgue, make_index).                    *)
(*                                                                         *)
(* Strings are sequences of one-character strings.  A Python exception is  *)
(* a result whose exc field names the exception class.                     *)
(***************************************************************************)
EXTENDS Integers, Sequences, FiniteSets, TLC

VARIABLES
    \* ---- version comparator ----
    vpc,        \* "input" | "compared" | "parsed"
    verA,       \* Version: [epoch, version]
    verB,       \* Version: [epoch, version]
    cmpAB,      \* verA.compare(verB)
    cmpBA,      \* verB.compare(verA)
    rawstr,     \* the argument of parse_version
    parsed,     \* parse_version(rawstr)
    \* ---- the package directory and the files beside it ----
    dir,        \* archive path -> archive, NoFile where there is none
    indexFile,  \* <root>/Packages
    gzFile,     \* <root>/Packages.gz
    stampsFile, \* <root>/Packages.stamps
    now,        \* the clock of change times
    opt_m,      \* displaced archives are moved to the morgue
    opt_a,      \* all versions are kept
    \* ---- one run of make_index ----
    pc,         \* "idle" | "walk" | "stamps" | "index" | "gzip" | "rename" | "rename_gz"
    opt_s,      \* simulation: nothing but the stamps is written
    packages,   \* packages.packages: key -> record
    old_pkg_hash,   \* filename -> record of the previous index
    pkgs_stamps,    \* filename -> change time
    files,      \* the archives still to visit, sorted
    tmpPackages,    \* Packages.<pid>
    tmpGz,      \* Packages.gz.<pid>
    \* ---- observation of the runs ----
    parses,     \* the archives this run has opened with Package(fn)
    start,      \* the files and the directory as this run found them
    lastResult, \* how the last run ended
    clean,      \* no archive was replaced since the last run ended
    nbuilds,
    nreplaced,
    nkilled,
    nfailed,    \* the runs of gzip that failed
    \* ---- signing ----
    cpc,        \* "keys" | "ready" | "signed" | "failed" | "pubgiven" |
                \* "mutated" |
                \* "otherkey" | "othersig" | "verified"
    keyFile,    \* the secret-key file
    pubFile,    \* the public-key file
    msgFile,    \* the bytes of the message file
    sigFile,    \* the signature file
    cres,       \* what the last call of sign_file or verify_file gave
    generated,  \* the key pair came from generate_keypair
    signedMsg,  \* the message as sign_file read it
    cwas,       \* cpc when verify_file was called
    \* ---- the control format ----
    rpc,        \* "built" | "printed" | "read"
    record,     \* the Package record
    rchecksum,  \* the checksums print is asked for
    text,       \* what Package.print returned
    reread,     \* what read_control made of the text
    \* ---- a package set ----
    spc,        \* "open" | "added" | "kept" | "raised" | "eof"
    via,        \* the caller of add_package
    pset,       \* Packages.packages: identity key -> record
    before,     \* the package set before the last call
    added,      \* the record of the last call
    aopt,       \* opt_a of the last call
    aret,       \* what the last call returned or raised
    nadds,      \* the calls made
    \* ---- locale routing ----
    lpc,        \* the place in names the writing loop is at
    locales_dir,\* a locale directory is configured
    lroot,      \* <pkg_dir>/<locales_dir> exists
    lset,       \* the package set, by place in the sorted names
    lplace,     \* where the archive of each record lies
    lindex,     \* the records written to the index
    lerrors,    \* the errors the loop caught
    \* ---- the sync run ----
    spos,       \* the source the run is at
    sfiles,     \* the .ipk files under the repository root
    sdirs,      \* the directories under the repository root
    has_network_errors,
    download_failed,        \* a download of the run failed
    global_expected_files,
    gc,         \* "pending" | "ran" | "skipped"
    gc_removed, \* what the garbage collection removed
    \* ---- the update cycles of the dashboard ----
    threads,    \* the threads that run an update cycle
    nskipped,   \* the runs of its job the scheduler skipped
    \* ---- an ar container ----
    members,    \* the members of the container
    arbytes,    \* the bytes of the file
    arfile,     \* the ArFile object and the position of its file
    request,    \* the last call of open and what it gave
    nopens,     \* the calls made
    \* ---- a section of a file ----
    section,    \* the FileSection: offset and size
    upos,       \* the position of the underlying file
    call,       \* the last call and what it did
    ncalls,     \* the calls made
    \* ---- builds that run at the same time ----
    bproc,      \* the process each build runs in: os.getpid()
    bpc,        \* the line each build is at
    dirnames,   \* the directory of the index: name -> file
    writing,    \* file -> the builds that hold it open for writing
    \* ---- the key files at start-up ----
    kfiles,     \* the files of KEYS_DIR: name -> key file
    kpc,        \* the line ensure_folders is at
    kstart,     \* the files as this start-up found them
    nstarts,    \* the start-ups after the first
    \* ---- the full update cycle ----
    mpc,        \* the line repo_update.main is at
    sources_json,\* repo_sources.json: "missing" | "unparsable" | "ok"
    scripts,    \* the scripts beside repo_update.py
    sync_run,   \* what repo_sync.run() did in this cycle
    returncode, \* the exit status of each child process, none while it has not ended
    ncycles     \* the cycles after the first

verVars == <<vpc, verA, verB, cmpAB, cmpBA, rawstr, parsed>>

idxVars ==
    <<dir, indexFile, gzFile, stampsFile, now, opt_m, opt_a, pc, opt_s,
      packages, old_pkg_hash, pkgs_stamps, files, tmpPackages, tmpGz,
      parses, start, lastResult, clean, nbuilds, nreplaced, nkilled,
      nfailed>>

cryVars ==
    <<cpc, keyFile, pubFile, msgFile, sigFile, cres, generated, signedMsg,
      cwas>>

ctlVars == <<rpc, record, rchecksum, text, reread>>

setVars == <<spc, via, pset, before, added, aopt, aret, nadds>>

locVars == <<lpc, locales_dir, lroot, lset, lplace, lindex, lerrors>>

syncVars ==
    <<spos, sfiles, sdirs, has_network_errors, download_failed,
      global_expected_files, gc, gc_removed>>

updVars == <<threads, nskipped>>

arVars ==
    <<members, arbytes, arfile, request, nopens>>

secVars ==
    <<section, upos, call, ncalls>>

tmpVars ==
    <<bproc, bpc, dirnames, writing>>

keyVars ==
    <<kfiles, kpc, kstart, nstarts>>

cycVars ==
    <<mpc, sources_json, scripts, sync_run, returncode, ncycles>>

nonVerVars ==
    <<idxVars, cryVars, ctlVars, setVars, locVars, syncVars, updVars,
      arVars, secVars, tmpVars, keyVars, cycVars>>

nonIdxVars ==
    <<verVars, cryVars, ctlVars, setVars, locVars, syncVars, updVars,
      arVars, secVars, tmpVars, keyVars, cycVars>>

nonCryVars ==
    <<verVars, idxVars, ctlVars, setVars, locVars, syncVars, updVars,
      arVars, secVars, tmpVars, keyVars, cycVars>>

nonCtlVars ==
    <<verVars, idxVars, cryVars, setVars, locVars, syncVars, updVars,
      arVars, secVars, tmpVars, keyVars, cycVars>>

nonSetVars ==
    <<verVars, idxVars, cryVars, ctlVars, locVars, syncVars, updVars,
      arVars, secVars, tmpVars, keyVars, cycVars>>

nonLocVars ==
    <<verVars, idxVars, cryVars, ctlVars, setVars, syncVars, updVars,
      arVars, secVars, tmpVars, keyVars, cycVars>>

nonSyncVars ==
    <<verVars, idxVars, cryVars, ctlVars, setVars, locVars, updVars,
      arVars, secVars, tmpVars, keyVars, cycVars>>

nonUpdVars ==
    <<verVars, idxVars, cryVars, ctlVars, setVars, locVars, syncVars,
      arVars, secVars, tmpVars, keyVars, cycVars>>

nonArVars ==
    <<verVars, idxVars, cryVars, ctlVars, setVars, locVars, syncVars,
      updVars, secVars, tmpVars, keyVars, cycVars>>

nonSecVars ==
    <<verVars, idxVars, cryVars, ctlVars, setVars, locVars, syncVars,
      updVars, arVars, tmpVars, keyVars, cycVars>>

nonTmpVars ==
    <<verVars, idxVars, cryVars, ctlVars, setVars, locVars, syncVars,
      updVars, arVars, secVars, keyVars, cycVars>>

nonKeyVars ==
    <<verVars, idxVars, cryVars, ctlVars, setVars, locVars, syncVars,
      updVars, arVars, secVars, tmpVars, cycVars>>

nonCycVars ==
    <<verVars, idxVars, cryVars, ctlVars, setVars, locVars, syncVars,
      updVars, arVars, secVars, tmpVars, keyVars>>

vars ==
    <<verVars, idxVars, cryVars, ctlVars, setVars, locVars, syncVars,
      updVars, arVars, secVars, tmpVars, keyVars, cycVars>>

-----------------------------------------------------------------------------
(* Bounds of the model *)

\* longest enumerated version string
MaxVerLen == 2

\* greatest enumerated epoch
MaxEpoch == 1

\* most corrupt archives in the directory
MaxCorrupt == 1

\* most runs of make_index
MaxBuilds == 3

\* most archives replaced between runs
MaxReplaced == 1

\* most runs terminated
MaxKilled == 1

\* most runs of gzip that fail
MaxFailed == 1

\* longest message file, in bytes
MaxMsgLen == 2

\* longest attribute value drawn for a record
MaxValueLen == 4

\* calls of add_package on one package set
MaxAdds == 2

\* threads that run an update cycle
MaxThreads == 3

\* runs of its job the scheduler skips
MaxSkipped == 1

\* greatest size of a member of an ar container
MaxMemberSize == 2

\* calls of ArFile.open on one container
MaxOpens == 3

\* length of the file a section lies in
MaxFileLen == 4

\* calls of seek and read on one section
MaxCalls == 3

-----------------------------------------------------------------------------
(* Characters and strings *)

Digits == {"0", "1", "2", "3", "4", "5", "6", "7", "8", "9"}

Letters == {"a", "r"}

\* the characters version strings are enumerated over
Alphabet == {"0", "1", "a", "r", "~", ".", "-"}

\* int(c) for a digit character
DigitVal(c) ==
    CASE c = "0" -> 0 [] c = "1" -> 1 [] c = "2" -> 2 [] c = "3" -> 3
      [] c = "4" -> 4 [] c = "5" -> 5 [] c = "6" -> 6 [] c = "7" -> 7
      [] c = "8" -> 8 [] c = "9" -> 9

\* ord(c) for the non-digit characters of the model
Ord(c) ==
    CASE c = "a" -> 97 [] c = "r" -> 114 [] c = "~" -> 126
      [] c = "." -> 46 [] c = "-" -> 45 [] c = ":" -> 58

\* the value of value.pop(0) if value else None, when the list is empty
None == "None"

StringsUpTo(n) == UNION {[1..k -> Alphabet] : k \in 0..n}

\* the version strings of the spec's examples
Examples ==
    { <<"1", ".", "0">>, <<"1", ".", "0", ".", "0">>,
      <<"1", ".", "9">>, <<"1", ".", "1", "0">>,
      <<"1", ".", "0", "1">>, <<"1", ".", "1">>,
      <<"0", ".", "1">>, <<"9", "9", ".", "9">>,
      <<"1", "-", "r", "1">>, <<"1", "-", "r", "0", "1">>,
      <<"a", ":", "1">> }

VerStrings == StringsUpTo(MaxVerLen) \cup Examples

Versions == [epoch : 0..MaxEpoch, version : VerStrings]

\* prefixes put before a version string to form an argument of parse_version
EpochPrefixes == { <<>>, <<"1", ":">>, <<"0", "1", ":">>, <<":">> }

-----------------------------------------------------------------------------
(* order(x), src/opkg_make_index.py:120-130 *)

order(x) ==
    IF x = None THEN 0
    ELSE IF x = "~" THEN -1
    ELSE IF x \in Digits THEN 0
    ELSE IF x \in Letters THEN Ord(x)
    ELSE 256 + Ord(x)

-----------------------------------------------------------------------------
(* Version._versioncompare, src/opkg_make_index.py:140-189 *)

IsDigitHead(s) == s # <<>> /\ Head(s) \in Digits

Pop(s) == IF s # <<>> THEN Head(s) ELSE None

Rest(s) == IF s # <<>> THEN Tail(s) ELSE s

\* lines 160-164: the alphanumeric loop; decided with r, or undecided with
\* what is left of value and ref
RECURSIVE AlphaLoop(_, _)
AlphaLoop(value, ref) ==
    IF (value # <<>> /\ ~IsDigitHead(value)) \/ (ref # <<>> /\ ~IsDigitHead(ref))
    THEN LET vc == order(Pop(value))
             rc == order(Pop(ref))
         IN  IF vc # rc
             THEN [decided |-> TRUE, r |-> IF vc < rc THEN -1 ELSE 1,
                   value |-> <<>>, ref |-> <<>>]
             ELSE AlphaLoop(Rest(value), Rest(ref))
    ELSE [decided |-> FALSE, r |-> 0, value |-> value, ref |-> ref]

\* SkipZeros without the loop: leading zeros are kept
SkipZeros_Kept(s) == s

\* lines 168-171: skipping "0"
RECURSIVE SkipZeros(_)
SkipZeros(s) ==
    IF s # <<>> /\ Head(s) = "0" THEN SkipZeros(Tail(s)) ELSE s

\* lines 174-179: the digit loop; first_diff is set by the first pair of
\* digits that differ, the rest of the common run is consumed
RECURSIVE DigitLoop(_, _, _)
DigitLoop(value, ref, first_diff) ==
    IF IsDigitHead(value) /\ IsDigitHead(ref)
    THEN DigitLoop(Tail(value), Tail(ref),
                   IF first_diff = 0
                   THEN DigitVal(Head(value)) - DigitVal(Head(ref))
                   ELSE first_diff)
    ELSE [value |-> value, ref |-> ref, first_diff |-> first_diff]

RECURSIVE versioncompare(_, _)
versioncompare(selfversion, refversion) ==
    IF selfversion = <<>> /\ refversion = <<>> THEN 0
    ELSE LET a == AlphaLoop(selfversion, refversion)
         IN  IF a.decided THEN a.r
             ELSE LET d == DigitLoop(SkipZeros(a.value), SkipZeros(a.ref), 0)
                  IN  IF IsDigitHead(d.value) THEN 1
                      ELSE IF IsDigitHead(d.ref) THEN -1
                      ELSE IF d.first_diff # 0
                           THEN (IF d.first_diff > 0 THEN 1 ELSE -1)
                      ELSE versioncompare(d.value, d.ref)

-----------------------------------------------------------------------------
(* Version.compare, src/opkg_make_index.py:191-202 *)

Ret(r) == [exc |-> "none", r |-> r]

Raise(e) == [exc |-> e, r |-> 0]

\* group 1 of (.+?)(-r.+)?$ may end after i characters: at the end of the
\* string, or before "-r" followed by at least one character
IsCut(s, i) ==
    \/ i = Len(s)
    \/ Len(s) >= i + 3 /\ s[i + 1] = "-" /\ s[i + 2] = "r"

\* re.match(r"(.+?)(-r.+)?$", s): no match on the empty string; group 1 is
\* the shortest non-empty prefix that IsCut allows, group 2 the rest (None,
\* which _versioncompare reads as "", when nothing is left)
ver_comps(s) ==
    IF s = <<>>
    THEN [matched |-> FALSE, group1 |-> <<>>, group2 |-> <<>>]
    ELSE LET cut == CHOOSE i \in 1..Len(s) :
                        IsCut(s, i) /\ \A j \in 1..(i - 1) : ~IsCut(s, j)
         IN  [matched |-> TRUE, group1 |-> SubSeq(s, 1, cut),
              group2 |-> SubSeq(s, cut + 1, Len(s))]

\* compare without the epoch test of lines 192-195
compare_NoEpoch(self, ref) ==
    LET self_ver_comps == ver_comps(self.version)
        ref_ver_comps == ver_comps(ref.version)
    IN  IF ~self_ver_comps.matched \/ ~ref_ver_comps.matched
        THEN Raise("AttributeError")
        ELSE LET r == versioncompare(self_ver_comps.group1, ref_ver_comps.group1)
             IN  IF r = 0
                 THEN Ret(versioncompare(self_ver_comps.group2,
                                         ref_ver_comps.group2))
                 ELSE Ret(r)

compare(self, ref) ==
    IF self.epoch > ref.epoch THEN Ret(1)
    ELSE IF self.epoch < ref.epoch THEN Ret(-1)
    ELSE LET self_ver_comps == ver_comps(self.version)
             ref_ver_comps == ver_comps(ref.version)
         IN  IF ~self_ver_comps.matched \/ ~ref_ver_comps.matched
             THEN Raise("AttributeError")
             ELSE LET r == versioncompare(self_ver_comps.group1,
                                          ref_ver_comps.group1)
                  IN  IF r = 0
                      THEN Ret(versioncompare(self_ver_comps.group2,
                                              ref_ver_comps.group2))
                      ELSE Ret(r)

-----------------------------------------------------------------------------
(* parse_version, src/opkg_make_index.py:208-215 *)

\* the digits [0-9]* matches at the head of s
RECURSIVE DigitPrefix(_)
DigitPrefix(s) ==
    IF IsDigitHead(s) THEN <<Head(s)>> \o DigitPrefix(Tail(s)) ELSE <<>>

\* int(epochstr) for a non-empty string of digits
RECURSIVE IntOf(_)
IntOf(ds) ==
    IF ds = <<>> THEN 0
    ELSE 10 * IntOf(SubSeq(ds, 1, Len(ds) - 1)) + DigitVal(ds[Len(ds)])

\* re.match('([0-9]*):(.*)', s) matches iff a ":" follows the leading digits;
\* int("") raises ValueError
parse_version(versionstr) ==
    LET epochstr == DigitPrefix(versionstr)
        n == Len(epochstr)
    IN  IF Len(versionstr) > n /\ versionstr[n + 1] = ":"
        THEN IF epochstr = <<>>
             THEN [exc |-> "ValueError", epoch |-> 0, version |-> <<>>]
             ELSE [exc |-> "none", epoch |-> IntOf(epochstr),
                   version |-> SubSeq(versionstr, n + 2, Len(versionstr))]
        ELSE [exc |-> "none", epoch |-> 0, version |-> versionstr]

-----------------------------------------------------------------------------
(* The comparator as a state machine: two Versions are drawn, compared in  *)
(* both directions, or a version string is parsed.                         *)

NoResult == Raise("unset")

NoParse == [exc |-> "unset", epoch |-> 0, version |-> <<>>]

VerInit ==
    /\ vpc = "input"
    /\ verA \in Versions
    /\ verB \in Versions
    /\ cmpAB = NoResult
    /\ cmpBA = NoResult
    /\ rawstr = <<>>
    /\ parsed = NoParse

DoCompare ==
    /\ vpc = "input"
    /\ vpc' = "compared"
    /\ cmpAB' = compare(verA, verB)
    /\ cmpBA' = compare(verB, verA)
    /\ UNCHANGED <<verA, verB, rawstr, parsed>>
    /\ UNCHANGED nonVerVars

DoParse ==
    /\ vpc = "input"
    /\ verB = verA
    /\ \E pre \in EpochPrefixes :
          /\ rawstr' = pre \o verA.version
          /\ parsed' = parse_version(pre \o verA.version)
    /\ vpc' = "parsed"
    /\ UNCHANGED <<verA, verB, cmpAB, cmpBA>>
    /\ UNCHANGED nonVerVars

VerNext == DoCompare \/ DoParse
-----------------------------------------------------------------------------
(* The index build, src/opkg_make_index.py:647-906.                        *)
(*                                                                         *)
(* make_index is called with packages_filename = <root>/Packages, without  *)
(* old_filename, filelist_filename and locales_dir.  An archive is what    *)
(* parsing it yields: its control fields, or the exception its bytes       *)
(* raise.  A record is the fields Package, Architecture, Version and       *)
(* Filename; the size and the checksums of a record are functions of the   *)
(* archive the record was parsed from.  Paths are relative to the root.    *)
(* Change times are whole seconds, and a replaced or renamed archive gets  *)
(* a later one.  The output of gzip is taken as a function of its input    *)
(* alone.                                                                  *)

P(d, b) == [dir |-> d, base |-> b]

\* the archive paths of the model, in the order files.sort() (line 776)
\* gives their names: "a.ipk" < "b.ipk" < "morgue/a.ipk" < "morgue/b.ipk"
\* < "sub/b.ipk"
PathOrder ==
    << P("root", "a.ipk"), P("root", "b.ipk"), P("morgue", "a.ipk"),
       P("morgue", "b.ipk"), P("sub", "b.ipk") >>

AllPaths == {PathOrder[i] : i \in 1..Len(PathOrder)}

\* where an archive can lie before the first build
InitialPaths == {P("root", "a.ipk"), P("root", "b.ipk"), P("sub", "b.ipk")}

\* the package names of the model, in the order of their strings
NameOrder == <<"bar", "foo">>

ArchiveVersions == { <<"1", ".", "0">>, <<"2", ".", "0">> }

\* what an archive that is not an ar file of the right layout raises in
\* Package.__init__: a bad magic fails the assert of line 62, an unparsable
\* member header fails int() in line 98, an unreadable control.tar.gz fails
\* tarfile.open in line 269, a missing control.tar.gz member raises IOError
\* in line 74
CorruptKinds == {"badmagic", "badheader", "badcontrol", "nomember"}

CorruptExc(kind) ==
    CASE kind = "badmagic" -> "AssertionError"
      [] kind = "badheader" -> "ValueError"
      [] kind = "badcontrol" -> "ReadError"
      [] kind = "nomember" -> "IOError"

NoFile ==
    [kind |-> "absent", package |-> "", architecture |-> "",
     version |-> <<>>, ctime |-> 0]

Archive(kind, package, version, ctime) ==
    [kind |-> kind, package |-> package, architecture |-> "mips",
     version |-> version, ctime |-> ctime]

ValidContents ==
    {Archive("ok", "foo", v, 0) : v \in ArchiveVersions}
        \cup {Archive("ok", "bar", <<"1", ".", "0">>, 0)}

CorruptContents == {Archive(k, "", <<>>, 0) : k \in CorruptKinds}

\* the directories the first build can find: at most MaxCorrupt corrupt
\* archives
InitialDirs ==
    {[p \in AllPaths |-> IF p \in InitialPaths THEN g[p] ELSE NoFile] :
        g \in {h \in [InitialPaths ->
                         ValidContents \cup CorruptContents \cup {NoFile}] :
                 Cardinality({p \in InitialPaths : h[p] \in CorruptContents})
                     <= MaxCorrupt}}

NoIndex == [exists |-> FALSE, records |-> <<>>]

EmptyMap == [p \in {} |-> 0]

NoStamps == [exists |-> FALSE, stamps |-> EmptyMap]

Put(f, k, v) == [x \in DOMAIN f \cup {k} |-> IF x = k THEN v ELSE f[x]]

Range(f) == {f[x] : x \in DOMAIN f}

\* exceptions the loops of make_index catch (lines 819, 862)
Caught(exc) == exc \in {"OSError", "IOError"}

-----------------------------------------------------------------------------
(* Package.__init__ with fn set, lines 254-278: the record of an archive   *)

Package(filename, f) ==
    IF f.kind = "ok"
    THEN [exc |-> "none",
          pkg |-> [package |-> f.package, architecture |-> f.architecture,
                   version |-> f.version, filename |-> filename]]
    ELSE [exc |-> CorruptExc(f.kind),
          pkg |-> [package |-> "", architecture |-> "", version |-> <<>>,
                   filename |-> filename]]

(* Package.compare_version, lines 568-578 *)
compare_parsed(sv, rv) ==
    IF sv.exc # "none" THEN Raise(sv.exc)
    ELSE IF rv.exc # "none" THEN Raise(rv.exc)
    ELSE compare([epoch |-> sv.epoch, version |-> sv.version],
                 [epoch |-> rv.epoch, version |-> rv.version])

compare_version(self, ref) ==
    compare_parsed(parse_version(self.version), parse_version(ref.version))

\* "%s" % x for a name: an absent one (None) is written "None"
StrOf(x) == IF x = "" THEN "None" ELSE x

\* the identity key, lines 658-661 and 796-799
pkg_key(pkg, a) ==
    IF a THEN <<StrOf(pkg.package), StrOf(pkg.architecture), pkg.version>>
    ELSE <<StrOf(pkg.package), StrOf(pkg.architecture)>>

\* lines 666-670: c is the result of the comparison with the record held
add_compared(c, pkgs1, name, pkg) ==
    IF c.exc # "none" THEN [exc |-> c.exc, ret |-> 1, packages |-> pkgs1]
    ELSE IF c.r >= 0
    THEN [exc |-> "none", ret |-> 0, packages |-> Put(pkgs1, name, pkg)]
    ELSE [exc |-> "none", ret |-> 1, packages |-> pkgs1]

(* Packages.add_package, lines 654-670 *)
add_package(pkgs, pkg, a) ==
    LET name == pkg_key(pkg, a)
        pkgs1 == IF name \notin DOMAIN pkgs THEN Put(pkgs, name, pkg) ELSE pkgs
    IN  add_compared(compare_version(pkg, pkgs1[name]), pkgs1, name, pkg)

(* Packages.read_packages_file, lines 672-686: the records of an index     *)
(* file are added without version keying; reading stops at the first       *)
(* record without a package name                                           *)
RECURSIVE read_packages_file(_, _)

\* line 682 and the next turn of the loop
read_added(r, records) ==
    IF r.exc # "none" THEN [exc |-> r.exc, packages |-> r.packages]
    ELSE read_packages_file(Tail(records), r.packages)

read_packages_file(records, pkgs) ==
    IF records = <<>> \/ Head(records).package = ""
    THEN [exc |-> "none", packages |-> pkgs]
    ELSE read_added(add_package(pkgs, Head(records), FALSE), records)

(* to_morgue, lines 706-716.  os.rename into <root>/morgue/<filename>      *)
(* needs the directory of the target: it exists for a file of the root     *)
(* and raises OSError for a file of a subdirectory; it replaces a file     *)
(* already at the target.  A renamed file gets a new change time.          *)
to_morgue(filename, d, t) ==
    IF d[filename].kind = "absent"
    THEN [exc |-> "none", dir |-> d, now |-> t]
    ELSE IF filename.dir = "root"
    THEN [exc |-> "none",
          dir |-> [d EXCEPT ![filename] = NoFile,
                            ![P("morgue", filename.base)] =
                                [d[filename] EXCEPT !.ctime = t + 1]],
          now |-> t + 1]
    ELSE [exc |-> "OSError", dir |-> d, now |-> t]

\* lexicographic order of two strings by character code
CharCode(c) == IF c \in Digits THEN 48 + DigitVal(c) ELSE Ord(c)

RECURSIVE StrLess(_, _)
StrLess(s, t) ==
    IF t = <<>> THEN FALSE
    ELSE IF s = <<>> THEN TRUE
    ELSE IF Head(s) # Head(t) THEN CharCode(Head(s)) < CharCode(Head(t))
    ELSE StrLess(Tail(s), Tail(t))

NameRank(n) == CHOOSE i \in 1..Len(NameOrder) : NameOrder[i] = n

\* names.sort() on the keys "name:arch" or "name:arch:version" (lines
\* 838-839): the names of the model are no prefixes of one another and
\* there is one architecture, so the name decides, then the version
KeyLess(k1, k2) ==
    IF k1[1] # k2[1] THEN NameRank(k1[1]) < NameRank(k2[1])
    ELSE Len(k1) = 3 /\ Len(k2) = 3 /\ StrLess(k1[3], k2[3])

RECURSIVE SortedKeys(_)
SortedKeys(keys) ==
    IF keys = {} THEN <<>>
    ELSE LET k == CHOOSE x \in keys : \A y \in keys \ {x} : KeyLess(x, y)
         IN  <<k>> \o SortedKeys(keys \ {k})

\* the records Package.print writes for the package set, lines 838-864
IndexOf(pkgs) ==
    LET names == SortedKeys(DOMAIN pkgs)
    IN  [i \in 1..Len(names) |-> pkgs[names[i]]]

\* gzip -9c of the temporary index, lines 870-871
Gzip(records) == [gzip |-> records]

NoGz == [exists |-> FALSE, data |-> Gzip(<<>>)]

\* what the shell and a gzip that failed leave in Packages.gz.<pid>: the
\* file the redirection created, with no gzip stream or a part of one
GzipFailed == [gzip |-> <<>>, truncated |-> TRUE]

-----------------------------------------------------------------------------
(* make_index, lines 731-906, in the steps a termination can separate      *)

StepResult(exc, pkgs, stamps, d, t, parsed_now) ==
    [exc |-> exc, packages |-> pkgs, pkgs_stamps |-> stamps, dir |-> d,
     now |-> t, parsed |-> parsed_now]

\* lines 807-818: mv is the result of to_morgue
file_moved(mv, pkgs, stamps, parsed_now) ==
    StepResult(mv.exc, pkgs, stamps, mv.dir, mv.now, parsed_now)

\* lines 806-818: r is the result of add_package
file_added(r, prev_filename, filename, f, stamps, d, t, m, parsed_now) ==
    IF r.exc # "none"
    THEN StepResult(r.exc, r.packages, stamps, d, t, parsed_now)
    ELSE IF m /\ r.ret = 0 /\ prev_filename # <<>>
    THEN file_moved(to_morgue(prev_filename[1], d, t), r.packages,
                    Put(stamps, filename, f.ctime), parsed_now)
    ELSE IF m /\ r.ret # 0
    THEN file_moved(to_morgue(filename, d, t), r.packages,
                    Put(stamps, filename, f.ctime), parsed_now)
    ELSE StepResult("none", r.packages, Put(stamps, filename, f.ctime), d, t,
                    parsed_now)

\* lines 796-805: p is the record of the cache or the result of Package(fn)
file_read(p, filename, f, pkgs, stamps, d, t, m, a, parsed_now) ==
    IF p.exc # "none"
    THEN StepResult(p.exc, pkgs, stamps, d, t, parsed_now)
    ELSE file_added(add_package(pkgs, p.pkg, a),
                    IF pkg_key(p.pkg, a) \in DOMAIN pkgs
                    THEN <<pkgs[pkg_key(p.pkg, a)].filename>> ELSE <<>>,
                    filename, f, stamps, d, t, m, parsed_now)

\* lines 782-786: the record of the previous index is taken when the stamp
\* of the file is the change time of the file
Cached(filename, f, stamps, old) ==
    /\ filename \in DOMAIN old
    /\ filename \in DOMAIN stamps
    /\ f.ctime = stamps[filename]

\* one turn of the loop of lines 777-821 for the file filename
process_file(filename, pkgs, stamps, old, d, t, m, a) ==
    IF d[filename].kind = "absent"
    THEN StepResult("OSError", pkgs, stamps, d, t, FALSE)
    ELSE file_read(IF Cached(filename, d[filename], stamps, old)
                   THEN [exc |-> "none", pkg |-> old[filename]]
                   ELSE Package(filename, d[filename]),
                   filename, d[filename], pkgs, stamps, d, t, m, a,
                   ~Cached(filename, d[filename], stamps, old))

\* old_pkg_hash of lines 751-753
OldPkgHash(pkgs) ==
    [fn \in {r.filename : r \in Range(pkgs)} |->
        CHOOSE r \in Range(pkgs) : r.filename = fn]

\* the files os.walk finds, sorted (lines 768-776)
WalkOf(d) == SelectSeq(PathOrder, LAMBDA p : d[p].kind # "absent")

\* before the first run: the directory d, no index, the policy m, a
IdxInitOf(d, m, a) ==
    /\ dir = d
    /\ indexFile = NoIndex
    /\ gzFile = NoGz
    /\ stampsFile = NoStamps
    /\ now = 0
    /\ opt_m = m
    /\ opt_a = a
    /\ pc = "idle"
    /\ opt_s = FALSE
    /\ packages = EmptyMap
    /\ old_pkg_hash = EmptyMap
    /\ pkgs_stamps = EmptyMap
    /\ files = <<>>
    /\ tmpPackages = NoIndex
    /\ tmpGz = NoGz
    /\ parses = {}
    /\ start = [index |-> NoIndex, gz |-> NoGz, stamps |-> NoStamps,
                dir |-> d, second |-> FALSE]
    /\ lastResult = "none"
    /\ clean = TRUE
    /\ nbuilds = 0
    /\ nreplaced = 0
    /\ nkilled = 0
    /\ nfailed = 0

IdxInit == \E d \in InitialDirs, m \in BOOLEAN, a \in BOOLEAN : IdxInitOf(d, m, a)

\* the end of a build: with a result, the temporary files of a build that
\* did not rename them left aside
EndBuild(result) ==
    /\ pc' = "idle"
    /\ lastResult' = result
    /\ clean' = TRUE
    /\ tmpPackages' = NoIndex
    /\ tmpGz' = NoGz

\* lines 741-776: old is what read_packages_file made of the previous index
Started(old) ==
    /\ old_pkg_hash' = OldPkgHash(old.packages)
    /\ pkgs_stamps' = IF indexFile.exists /\ stampsFile.exists
                      THEN stampsFile.stamps ELSE EmptyMap
    /\ files' = WalkOf(dir)
    /\ IF old.exc # "none"
       THEN EndBuild(old.exc)
       ELSE /\ pc' = "walk"
            /\ UNCHANGED <<lastResult, clean, tmpPackages, tmpGz>>

\* lines 735-776: the previous index and the stamp file are read, the
\* archives enumerated
StartBuild ==
    /\ pc = "idle"
    /\ nbuilds < MaxBuilds
    /\ nbuilds' = nbuilds + 1
    /\ \E s \in BOOLEAN : opt_s' = s
    /\ start' = [index |-> indexFile, gz |-> gzFile, stamps |-> stampsFile,
                 dir |-> dir, second |-> (lastResult = "completed" /\ clean)]
    /\ parses' = {}
    /\ packages' = EmptyMap
    /\ Started(IF indexFile.exists
               THEN read_packages_file(indexFile.records, EmptyMap)
               ELSE [exc |-> "none", packages |-> EmptyMap])
    /\ UNCHANGED <<dir, indexFile, gzFile, stampsFile, now, opt_m, opt_a,
                   nreplaced, nkilled, nfailed>>
    /\ UNCHANGED nonIdxVars

\* the effect of one turn of the loop; an exception the loop does not
\* catch ends the build
Processed(r) ==
    /\ packages' = r.packages
    /\ pkgs_stamps' = r.pkgs_stamps
    /\ dir' = r.dir
    /\ now' = r.now
    /\ parses' = IF r.parsed THEN parses \cup {Head(files)} ELSE parses
    /\ files' = Tail(files)
    /\ IF r.exc = "none" \/ Caught(r.exc)
       THEN /\ pc' = "walk"
            /\ UNCHANGED <<lastResult, clean, tmpPackages, tmpGz>>
       ELSE EndBuild(r.exc)

\* lines 777-821: one archive
ProcessFile ==
    /\ pc = "walk"
    /\ files # <<>>
    /\ Processed(process_file(Head(files), packages, pkgs_stamps,
                              old_pkg_hash, dir, now, opt_m, opt_a))
    /\ UNCHANGED <<indexFile, gzFile, stampsFile, opt_m, opt_a, opt_s,
                   old_pkg_hash, start, nbuilds, nreplaced, nkilled, nfailed>>
    /\ UNCHANGED nonIdxVars

\* line 824: open(stamplist_filename, "w") truncates the stamp file
OpenStamps ==
    /\ pc = "walk"
    /\ files = <<>>
    /\ stampsFile' = [exists |-> TRUE, stamps |-> EmptyMap]
    /\ pc' = "stamps"
    /\ UNCHANGED <<dir, indexFile, gzFile, now, opt_m, opt_a, opt_s, packages,
                   old_pkg_hash, pkgs_stamps, files, tmpPackages, tmpGz,
                   parses, start, lastResult, clean, nbuilds, nreplaced,
                   nkilled, nfailed>>
    /\ UNCHANGED nonIdxVars

\* lines 825-831: the stamps are written; a simulation ends here
WriteStamps ==
    /\ pc = "stamps"
    /\ stampsFile' = [exists |-> TRUE, stamps |-> pkgs_stamps]
    /\ IF opt_s
       THEN EndBuild("simulated")
       ELSE /\ pc' = "index"
            /\ UNCHANGED <<lastResult, clean, tmpPackages, tmpGz>>
    /\ UNCHANGED <<dir, indexFile, gzFile, now, opt_m, opt_a, opt_s, packages,
                   old_pkg_hash, pkgs_stamps, files, parses, start, nbuilds,
                   nreplaced, nkilled, nfailed>>
    /\ UNCHANGED nonIdxVars

\* lines 835-867: the records are written to Packages.<pid>
WriteIndex ==
    /\ pc = "index"
    /\ tmpPackages' = [exists |-> TRUE, records |-> IndexOf(packages)]
    /\ pc' = "gzip"
    /\ UNCHANGED <<dir, indexFile, gzFile, stampsFile, now, opt_m, opt_a,
                   opt_s, packages, old_pkg_hash, pkgs_stamps, files, tmpGz,
                   parses, start, lastResult, clean, nbuilds, nreplaced,
                   nkilled, nfailed>>
    /\ UNCHANGED nonIdxVars

\* lines 868-871: gzip writes Packages.gz.<pid>; what subprocess.call
\* returns is dropped, so the run goes on when gzip has failed
GzipIndex ==
    /\ pc = "gzip"
    /\ \/ /\ tmpGz' = [exists |-> TRUE, data |-> Gzip(tmpPackages.records)]
          /\ nfailed' = nfailed
       \/ /\ nfailed < MaxFailed
          /\ tmpGz' = [exists |-> TRUE, data |-> GzipFailed]
          /\ nfailed' = nfailed + 1
    /\ pc' = "rename"
    /\ UNCHANGED <<dir, indexFile, gzFile, stampsFile, now, opt_m, opt_a,
                   opt_s, packages, old_pkg_hash, pkgs_stamps, files,
                   tmpPackages, parses, start, lastResult, clean, nbuilds,
                   nreplaced, nkilled>>
    /\ UNCHANGED nonIdxVars

\* line 872: os.rename(tmp_packages_filename, packages_filename)
RenamePackages ==
    /\ pc = "rename"
    /\ indexFile' = tmpPackages
    /\ tmpPackages' = NoIndex
    /\ pc' = "rename_gz"
    /\ UNCHANGED <<dir, gzFile, stampsFile, now, opt_m, opt_a, opt_s,
                   packages, old_pkg_hash, pkgs_stamps, files, tmpGz, parses,
                   start, lastResult, clean, nbuilds, nreplaced, nkilled, nfailed>>
    /\ UNCHANGED nonIdxVars

\* lines 873-906: os.rename(tmp_gzip_filename, gzip_filename); return True
RenameGz ==
    /\ pc = "rename_gz"
    /\ gzFile' = tmpGz
    /\ EndBuild("completed")
    /\ UNCHANGED <<dir, indexFile, stampsFile, now, opt_m, opt_a, opt_s,
                   packages, old_pkg_hash, pkgs_stamps, files, parses, start,
                   nbuilds, nreplaced, nkilled, nfailed>>
    /\ UNCHANGED nonIdxVars

\* the process is terminated during a build
Kill ==
    /\ pc # "idle"
    /\ nkilled < MaxKilled
    /\ nkilled' = nkilled + 1
    /\ EndBuild("killed")
    /\ UNCHANGED <<dir, indexFile, gzFile, stampsFile, now, opt_m, opt_a,
                   opt_s, packages, old_pkg_hash, pkgs_stamps, files, parses,
                   start, nbuilds, nreplaced, nfailed>>
    /\ UNCHANGED nonIdxVars

\* between two builds an archive of the root is replaced by another
\* version of its package under the same file name, at a later change time
ReplaceArchive ==
    /\ pc = "idle"
    /\ nbuilds > 0
    /\ nreplaced < MaxReplaced
    /\ nreplaced' = nreplaced + 1
    /\ \E p \in AllPaths, c \in ValidContents :
          /\ p.dir = "root"
          /\ dir[p].kind # "absent"
          /\ c.package = dir[p].package
          /\ c.version # dir[p].version
          /\ dir' = [dir EXCEPT ![p] = [c EXCEPT !.ctime = now + 1]]
    /\ now' = now + 1
    /\ clean' = FALSE
    /\ UNCHANGED <<indexFile, gzFile, stampsFile, opt_m, opt_a, pc, opt_s,
                   packages, old_pkg_hash, pkgs_stamps, files, tmpPackages,
                   tmpGz, parses, start, lastResult, nbuilds, nkilled, nfailed>>
    /\ UNCHANGED nonIdxVars

IdxNext ==
    \/ StartBuild
    \/ ProcessFile
    \/ OpenStamps
    \/ WriteStamps
    \/ WriteIndex
    \/ GzipIndex
    \/ RenamePackages
    \/ RenameGz
    \/ Kill
    \/ ReplaceArchive

-----------------------------------------------------------------------------
(* Signing, src/crypto_utils.py.                                           *)
(*                                                                         *)
(* A key or signature file is its comment line and the structure its       *)
(* second line decodes to; the length of the decoded bytes tells a secret  *)
(* key (104), a public key (42) and a signature (74) apart.  Ed25519 is    *)
(* taken as an ideal scheme: a signature names the verify key of the seed  *)
(* that made it and the message it was made over, and verifies under that  *)
(* key and that message alone.                                             *)

PK_ALGO == "Ed"

\* 32-byte values: a seed, and what a chain of operations made of it
Bytes32(id, form) == [id |-> id, form |-> form]

Seeds == {Bytes32(id, <<>>) : id \in {"1", "2"}}

\* 8-byte key identifiers
Fingerprints == {"fp1", "fp2"}

\* signing_key.verify_key, line 126, and VerifyKey of verify_file
VerifyKeyOf(seed) == Bytes32(seed.id, seed.form \o <<"vk">>)

\* the bytes a password-protected secret key holds in place of the seed
Encrypted(seed) == Bytes32(seed.id, seed.form \o <<"enc">>)

\* message files: byte strings
MsgBytes == {0, 1}

Messages == UNION {[1..k -> MsgBytes] : k \in 0..MaxMsgLen}

\* signing_key.sign(message).signature, line 69
Ed25519Sign(seed, message) == [by |-> VerifyKeyOf(seed), over |-> message]

\* 64 bytes that no key made
NoSignature == [by |-> Bytes32("0", <<"vk">>), over |-> <<>>]

\* verify_key.verify(message, signature), line 115: TRUE when it returns,
\* FALSE when it raises BadSignatureError
Ed25519Verify(pubkey, message, signature) ==
    signature.by = pubkey /\ signature.over = message

NoKdf == [kdfalg |-> "none", kdfrounds |-> 0, salt |-> "zero",
          checksum |-> "zero"]

\* the KDF fields of a key that a password protects: any of them set
ProtectedKdfs ==
    {k \in [kdfalg : {"none", "BK"}, kdfrounds : {0, 42},
            salt : {"zero", "salt"}, checksum : {"zero", "sum"}] : k # NoKdf}

\* the .key file generate_keypair writes, lines 143-151
SecretKeyFile(pkalg, kdf, fingerprint, keybytes, pubkey) ==
    [header |-> TRUE, size |-> "seckey", pkalg |-> pkalg, kdf |-> kdf,
     fingerprint |-> fingerprint, key |-> <<keybytes, pubkey>>]

\* the .pub file generate_keypair writes, lines 135-139
PublicKeyFile(pkalg, fingerprint, pubkey) ==
    [header |-> TRUE, size |-> "pubkey", pkalg |-> pkalg, kdf |-> NoKdf,
     fingerprint |-> fingerprint, key |-> <<pubkey>>]

\* the .sig file sign_file writes, lines 72-81
SignatureFile(pkalg, fingerprint, signature) ==
    [lines |-> 2, size |-> "sig", pkalg |-> pkalg,
     fingerprint |-> fingerprint, signature |-> signature]

NoKeyFile ==
    [header |-> FALSE, size |-> "none", pkalg |-> "", kdf |-> NoKdf,
     fingerprint |-> "", key |-> <<>>]

NoSigFile ==
    [lines |-> 0, size |-> "none", pkalg |-> "", fingerprint |-> "",
     signature |-> NoSignature]

Returned(v) == [exc |-> "none", msg |-> "", value |-> v]

ValueError(msg) == [exc |-> "ValueError", msg |-> msg, value |-> <<>>]

(* load_key, lines 22-53: the value is <<fingerprint, key_data>> *)
load_key(file) ==
    IF ~file.header THEN ValueError("header")
    ELSE IF file.size = "seckey"
    THEN IF file.pkalg # PK_ALGO THEN ValueError("algorithm")
         ELSE Returned(<<file.fingerprint, file.key[1]>>)
    ELSE IF file.size = "pubkey"
    THEN IF file.pkalg # PK_ALGO THEN ValueError("algorithm")
         ELSE Returned(<<file.fingerprint, file.key[1]>>)
    ELSE ValueError("size")

\* lines 64-81: k is what load_key returned
sign_loaded(k, message) ==
    IF k.exc # "none" THEN k
    ELSE Returned(SignatureFile(PK_ALGO, k.value[1],
                                Ed25519Sign(k.value[2], message)))

(* sign_file, lines 55-81: the value is the signature file written *)
sign_file(message, keyfile) == sign_loaded(load_key(keyfile), message)

\* verify_loaded with BadSignatureError not caught
verify_loaded_Uncaught(k, message, sig) ==
    IF k.exc # "none" THEN k
    ELSE IF sig.lines < 2 THEN ValueError("signature format")
    ELSE IF sig.size # "sig" THEN ValueError("signature size")
    ELSE IF sig.pkalg # PK_ALGO THEN ValueError("signature algorithm")
    ELSE IF k.value[1] # sig.fingerprint THEN ValueError("key id")
    ELSE IF Ed25519Verify(k.value[2], message, sig.signature)
    THEN Returned(TRUE)
    ELSE [exc |-> "BadSignatureError", msg |-> "", value |-> <<>>]

\* verify_loaded without the comparison of the fingerprints
verify_loaded_NoKeyId(k, message, sig) ==
    IF k.exc # "none" THEN k
    ELSE IF sig.lines < 2 THEN ValueError("signature format")
    ELSE IF sig.size # "sig" THEN ValueError("signature size")
    ELSE IF sig.pkalg # PK_ALGO THEN ValueError("signature algorithm")
    ELSE Returned(Ed25519Verify(k.value[2], message, sig.signature))

\* lines 91-118: k is what load_key returned for the public key
verify_loaded(k, message, sig) ==
    IF k.exc # "none" THEN k
    ELSE IF sig.lines < 2 THEN ValueError("signature format")
    ELSE IF sig.size # "sig" THEN ValueError("signature size")
    ELSE IF sig.pkalg # PK_ALGO THEN ValueError("signature algorithm")
    ELSE IF k.value[1] # sig.fingerprint THEN ValueError("key id")
    ELSE Returned(Ed25519Verify(k.value[2], message, sig.signature))

(* verify_file, lines 83-118: the value is TRUE or FALSE *)
verify_file(message, sig, pubkeyfile) ==
    verify_loaded(load_key(pubkeyfile), message, sig)

\* the public-key files of the model
PubFiles ==
    {PublicKeyFile(alg, fp, VerifyKeyOf(seed)) :
        alg \in {PK_ALGO, "XX"}, fp \in Fingerprints, seed \in Seeds}

\* the signatures of the model: made by a seed of the model over a message
\* of the model, or by none
Signatures ==
    {Ed25519Sign(seed, m) : seed \in Seeds, m \in Messages}
        \cup {NoSignature}

\* the signature files of the model
SigFiles ==
    {SignatureFile(alg, fp, s) :
        alg \in {PK_ALGO, "XX"}, fp \in Fingerprints, s \in Signatures}
        \cup {[SignatureFile(PK_ALGO, fp, NoSignature) EXCEPT !.size = "other"]
                : fp \in Fingerprints}
        \cup {NoSigFile}

NoResultYet == [exc |-> "unset", msg |-> "", value |-> <<>>]

CryInit ==
    /\ cpc = "keys"
    /\ keyFile = NoKeyFile
    /\ pubFile = NoKeyFile
    /\ msgFile = <<>>
    /\ sigFile = NoSigFile
    /\ cres = NoResultYet
    /\ generated = FALSE
    /\ signedMsg = <<>>
    /\ cwas = "keys"

\* generate_keypair with a fingerprint drawn for each of the two files
GenerateKeypair_TwoFingerprints ==
    /\ cpc = "keys"
    /\ \E seed \in Seeds, fp \in Fingerprints, fp2 \in Fingerprints :
          /\ pubFile' = PublicKeyFile(PK_ALGO, fp, VerifyKeyOf(seed))
          /\ keyFile' = SecretKeyFile(PK_ALGO, NoKdf, fp2, seed,
                                      VerifyKeyOf(seed))
    /\ generated' = TRUE
    /\ cpc' = "ready"
    /\ UNCHANGED <<msgFile, sigFile, cres, signedMsg, cwas>>
    /\ UNCHANGED nonCryVars

(* generate_keypair, lines 120-153: SigningKey.generate() and os.urandom    *)
(* draw the seed and the fingerprint                                       *)
GenerateKeypair ==
    /\ cpc = "keys"
    /\ \E seed \in Seeds, fp \in Fingerprints :
          /\ pubFile' = PublicKeyFile(PK_ALGO, fp, VerifyKeyOf(seed))
          /\ keyFile' = SecretKeyFile(PK_ALGO, NoKdf, fp, seed,
                                      VerifyKeyOf(seed))
    /\ generated' = TRUE
    /\ cpc' = "ready"
    /\ UNCHANGED <<msgFile, sigFile, cres, signedMsg, cwas>>
    /\ UNCHANGED nonCryVars

\* a key pair another signify-compatible tool made is put in place: the
\* secret key may be protected by a password, or of another algorithm
InstallKeys ==
    /\ cpc = "keys"
    /\ \E seed \in Seeds, fp \in Fingerprints, alg \in {PK_ALGO, "XX"},
          kdf \in ProtectedKdfs \cup {NoKdf} :
          /\ pubFile' = PublicKeyFile(alg, fp, VerifyKeyOf(seed))
          /\ keyFile' = SecretKeyFile(alg, kdf, fp,
                                      IF kdf = NoKdf THEN seed
                                      ELSE Encrypted(seed),
                                      VerifyKeyOf(seed))
    /\ generated' = FALSE
    /\ cpc' = "ready"
    /\ UNCHANGED <<msgFile, sigFile, cres, signedMsg, cwas>>
    /\ UNCHANGED nonCryVars

\* the effect of sign_file: r is what it returned or raised
Signed(r) ==
    /\ cres' = r
    /\ sigFile' = IF r.exc = "none" THEN r.value ELSE sigFile
    /\ cpc' = IF r.exc = "none" THEN "signed" ELSE "failed"

(* sign_file on a message file, lines 55-81 *)
SignFile ==
    /\ cpc = "ready"
    /\ \E m \in Messages :
          /\ msgFile' = m
          /\ signedMsg' = m
          /\ Signed(sign_file(m, keyFile))
    /\ UNCHANGED <<keyFile, pubFile, generated, cwas>>
    /\ UNCHANGED nonCryVars

\* sign_file with the public-key file as its key_path
SignFileWithPublicKey ==
    /\ cpc = "ready"
    /\ \E m \in Messages :
          /\ msgFile' = m
          /\ signedMsg' = m
          /\ cres' = sign_file(m, pubFile)
    /\ sigFile' = IF cres'.exc = "none" THEN cres'.value ELSE sigFile
    /\ cpc' = "pubgiven"
    /\ UNCHANGED <<keyFile, pubFile, generated, cwas>>
    /\ UNCHANGED nonCryVars

\* one byte of the message file is changed after signing
MutateMessage ==
    /\ cpc = "signed"
    /\ \E i \in 1..Len(msgFile) :
          msgFile' = [msgFile EXCEPT ![i] = 1 - msgFile[i]]
    /\ cpc' = "mutated"
    /\ UNCHANGED <<keyFile, pubFile, sigFile, cres, generated, signedMsg,
                   cwas>>
    /\ UNCHANGED nonCryVars

\* the signature is to be verified with another public-key file
ReplacePubkey ==
    /\ cpc = "signed"
    /\ \E p \in PubFiles : p # pubFile /\ pubFile' = p
    /\ cpc' = "otherkey"
    /\ UNCHANGED <<keyFile, msgFile, sigFile, cres, generated, signedMsg,
                   cwas>>
    /\ UNCHANGED nonCryVars

\* another signature file is put in place of the one sign_file wrote
ReplaceSignature ==
    /\ cpc = "signed"
    /\ \E s \in SigFiles : s # sigFile /\ sigFile' = s
    /\ cpc' = "othersig"
    /\ UNCHANGED <<keyFile, pubFile, msgFile, cres, generated, signedMsg,
                   cwas>>
    /\ UNCHANGED nonCryVars

(* verify_file, lines 83-118 *)
VerifyFile ==
    /\ cpc \in {"signed", "mutated", "otherkey", "othersig"}
    /\ cres' = verify_file(msgFile, sigFile, pubFile)
    /\ cwas' = cpc
    /\ cpc' = "verified"
    /\ UNCHANGED <<keyFile, pubFile, msgFile, sigFile, generated, signedMsg>>
    /\ UNCHANGED nonCryVars

CryNext ==
    \/ GenerateKeypair
    \/ InstallKeys
    \/ SignFile
    \/ SignFileWithPublicKey
    \/ MutateMessage
    \/ ReplacePubkey
    \/ ReplaceSignature
    \/ VerifyFile

-----------------------------------------------------------------------------
(* The control format, src/opkg_make_index.py:218-374 and 580-639.         *)
(*                                                                         *)
(* A text is a sequence of characters.  The value of an attribute is None, *)
(* a string or an integer; file_list and user_defined_fields, empty        *)
(* containers in the code, stand as None.  read_control reads from a text  *)
(* stream, as read_packages_file gives it one.                             *)

NoValue == [kind |-> "none", s |-> <<>>, n |-> 0]

Str(s) == [kind |-> "str", s |-> s, n |-> 0]

Num(n) == [kind |-> "int", s |-> <<>>, n |-> n]

\* bool(v) of an attribute value
Truthy(v) == (v.kind = "str" /\ v.s # <<>>) \/ (v.kind = "int" /\ v.n # 0)

AsciiUpper ==
    <<"A", "B", "C", "D", "E", "F", "G", "H", "I", "J", "K", "L", "M",
       "N", "O", "P", "Q", "R", "S", "T", "U", "V", "W", "X", "Y", "Z">>

AsciiLower ==
    <<"a", "b", "c", "d", "e", "f", "g", "h", "i", "j", "k", "l", "m",
       "n", "o", "p", "q", "r", "s", "t", "u", "v", "w", "x", "y", "z">>

\* the characters [\w-] matches, line 342
WordChars ==
    {AsciiUpper[i] : i \in 1..26} \cup {AsciiLower[i] : i \in 1..26}
        \cup Digits \cup {"_", "-"}

\* the characters \s matches and rstrip() strips
Whitespace == {" ", "\n"}

\* c.lower()
LowerChar(c) ==
    IF \E i \in 1..26 : AsciiUpper[i] = c
    THEN AsciiLower[CHOOSE i \in 1..26 : AsciiUpper[i] = c]
    ELSE c

\* name.lower(), line 345
lower(name) == [i \in 1..Len(name) |-> LowerChar(name[i])]

\* the names of the attributes Package.__init__ sets, lines 227-253: the
\* keys of self.__dict__ of a new Package
InitAttrs ==
    [package |-> <<"p", "a", "c", "k", "a", "g", "e">>,
     version |-> <<"v", "e", "r", "s", "i", "o", "n">>,
     parsed_version |-> <<"p", "a", "r", "s", "e", "d", "_", "v", "e", "r", "s", "i", "o", "n">>,
     architecture |-> <<"a", "r", "c", "h", "i", "t", "e", "c", "t", "u", "r", "e">>,
     maintainer |-> <<"m", "a", "i", "n", "t", "a", "i", "n", "e", "r">>,
     source |-> <<"s", "o", "u", "r", "c", "e">>,
     description |-> <<"d", "e", "s", "c", "r", "i", "p", "t", "i", "o", "n">>,
     depends |-> <<"d", "e", "p", "e", "n", "d", "s">>,
     provides |-> <<"p", "r", "o", "v", "i", "d", "e", "s">>,
     replaces |-> <<"r", "e", "p", "l", "a", "c", "e", "s">>,
     conflicts |-> <<"c", "o", "n", "f", "l", "i", "c", "t", "s">>,
     recommends |-> <<"r", "e", "c", "o", "m", "m", "e", "n", "d", "s">>,
     suggests |-> <<"s", "u", "g", "g", "e", "s", "t", "s">>,
     section |-> <<"s", "e", "c", "t", "i", "o", "n">>,
     filename_header |-> <<"f", "i", "l", "e", "n", "a", "m", "e", "_", "h", "e", "a", "d", "e", "r">>,
     file_list |-> <<"f", "i", "l", "e", "_", "l", "i", "s", "t">>,
     installed_size |-> <<"i", "n", "s", "t", "a", "l", "l", "e", "d", "_", "s", "i", "z", "e">>,
     filename |-> <<"f", "i", "l", "e", "n", "a", "m", "e">>,
     file_ext_opk |-> <<"f", "i", "l", "e", "_", "e", "x", "t", "_", "o", "p", "k">>,
     homepage |-> <<"h", "o", "m", "e", "p", "a", "g", "e">>,
     oe |-> <<"o", "e">>,
     priority |-> <<"p", "r", "i", "o", "r", "i", "t", "y">>,
     tags |-> <<"t", "a", "g", "s">>,
     fn |-> <<"f", "n">>,
     license |-> <<"l", "i", "c", "e", "n", "s", "e">>,
     user_defined_fields |-> <<"u", "s", "e", "r", "_", "d", "e", "f", "i", "n", "e", "d", "_", "f", "i", "e", "l", "d", "s">>]

\* the attributes __getattr__ computes, lines 283-293
Computed == {"md5", "sha256", "size"}

Attrs == DOMAIN InitAttrs \cup Computed

\* the field names Package.print writes, lines 586-633
FieldName ==
    [package |-> <<"P", "a", "c", "k", "a", "g", "e">>,
     version |-> <<"V", "e", "r", "s", "i", "o", "n">>,
     depends |-> <<"D", "e", "p", "e", "n", "d", "s">>,
     provides |-> <<"P", "r", "o", "v", "i", "d", "e", "s">>,
     replaces |-> <<"R", "e", "p", "l", "a", "c", "e", "s">>,
     conflicts |-> <<"C", "o", "n", "f", "l", "i", "c", "t", "s">>,
     suggests |-> <<"S", "u", "g", "g", "e", "s", "t", "s">>,
     recommends |-> <<"R", "e", "c", "o", "m", "m", "e", "n", "d", "s">>,
     section |-> <<"S", "e", "c", "t", "i", "o", "n">>,
     architecture |-> <<"A", "r", "c", "h", "i", "t", "e", "c", "t", "u", "r", "e">>,
     maintainer |-> <<"M", "a", "i", "n", "t", "a", "i", "n", "e", "r">>,
     md5 |-> <<"M", "D", "5", "S", "u", "m">>,
     sha256 |-> <<"S", "H", "A", "2", "5", "6", "s", "u", "m">>,
     size |-> <<"S", "i", "z", "e">>,
     installed_size |-> <<"I", "n", "s", "t", "a", "l", "l", "e", "d", "S", "i", "z", "e">>,
     filename |-> <<"F", "i", "l", "e", "n", "a", "m", "e">>,
     source |-> <<"S", "o", "u", "r", "c", "e">>,
     description |-> <<"D", "e", "s", "c", "r", "i", "p", "t", "i", "o", "n">>,
     oe |-> <<"O", "E">>,
     homepage |-> <<"H", "o", "m", "e", "P", "a", "g", "e">>,
     license |-> <<"L", "i", "c", "e", "n", "s", "e">>,
     priority |-> <<"P", "r", "i", "o", "r", "i", "t", "y">>,
     tags |-> <<"T", "a", "g", "s">>]

\* the order Package.print writes the fields in
PrintOrder ==
    <<"package", "version", "depends", "provides", "replaces",
      "conflicts", "suggests", "recommends", "section", "architecture",
      "maintainer", "md5", "sha256", "size", "installed_size",
      "filename", "source", "description", "oe", "homepage",
      "license", "priority", "tags">>

\* Package(), lines 227-253
NewPackage ==
    [a \in Attrs |->
        IF a = "version" THEN Str(<<"n", "o", "n", "e">>)
        ELSE IF a = "file_ext_opk" THEN Str(<<"i", "p", "k">>)
        ELSE NoValue]

\* the string _computeFileMD5 and _computeFileSHA256 set without a file
Unknown == Str(<<"U", "n", "k", "n", "o", "w", "n">>)

\* self.<a>: __getattr__ computes md5, sha256 and size when they are not
\* set, lines 283-331; the record has no file (fn is None)
Get(self, a) ==
    IF a \in Computed /\ self[a] = NoValue
    THEN IF a = "size" THEN Num(0) ELSE Unknown
    ELSE self[a]

DigitChar(d) == CHOOSE c \in Digits : DigitVal(c) = d

\* "%d" % n for n >= 0
RECURSIVE Decimal(_)
Decimal(n) ==
    IF n < 10 THEN <<DigitChar(n)>>
    ELSE Decimal(n \div 10) \o <<DigitChar(n % 10)>>

\* "%s" % v for a string, "%d" % int(v) for an integer
Formatted(v) == IF v.kind = "int" THEN Decimal(v.n) ELSE v.s

\* the line print writes for attribute a, or nothing: the checksums are
\* written when they are asked for (lines 608-613)
FieldLine(self, checksum, a) ==
    IF (a \in {"md5", "sha256"} => a \in checksum) /\ Truthy(Get(self, a))
    THEN FieldName[a] \o <<":", " ">> \o Formatted(Get(self, a)) \o <<"\n">>
    ELSE <<>>

RECURSIVE FieldLines(_, _, _)
FieldLines(self, checksum, i) ==
    IF i > Len(PrintOrder) THEN <<>>
    ELSE FieldLine(self, checksum, PrintOrder[i])
            \o FieldLines(self, checksum, i + 1)

(* Package.print, lines 580-639, of a record without user-defined fields *)
print(self, checksum) == FieldLines(self, checksum, 1) \o <<"\n">>

\* the length of control.readline(): up to the first newline, which is kept
RECURSIVE LineLen(_)
LineLen(stream) ==
    IF stream = <<>> THEN 0
    ELSE IF Head(stream) = "\n" THEN 1
    ELSE 1 + LineLen(Tail(stream))

readline(stream) == SubSeq(stream, 1, LineLen(stream))

\* the stream after control.readline()
AfterLine(stream) == SubSeq(stream, LineLen(stream) + 1, Len(stream))

RECURSIVE rstrip(_)
rstrip(s) ==
    IF s # <<>> /\ s[Len(s)] \in Whitespace
    THEN rstrip(SubSeq(s, 1, Len(s) - 1))
    ELSE s

\* what \s* consumes
RECURSIVE lstrip(_)
lstrip(s) ==
    IF s # <<>> /\ Head(s) \in Whitespace THEN lstrip(Tail(s)) ELSE s

\* the length of the prefix [\w-]*? matches before a ":", or -1
RECURSIVE NameLen(_)
NameLen(line) ==
    IF line = <<>> THEN -1
    ELSE IF Head(line) = ":" THEN 0
    ELSE IF Head(line) \notin WordChars THEN -1
    ELSE IF NameLen(Tail(line)) < 0 THEN -1
    ELSE 1 + NameLen(Tail(line))

\* re.match(r'([\w-]*?):\s*(.*)', line), line 342
Matched(line, n) ==
    IF n < 0 THEN [ok |-> FALSE, name |-> <<>>, value |-> <<>>]
    ELSE [ok |-> TRUE, name |-> SubSeq(line, 1, n),
          value |-> lstrip(SubSeq(line, n + 2, Len(line)))]

match(line) == Matched(line, NameLen(line))

\* the lines 347-354 append to the value: the lines that follow and begin
\* with a space.  Gives the value, the line the loop stopped at and the
\* stream after it.
RECURSIVE Continued(_, _)

ContinuedWith(value, line, stream) ==
    IF line = <<>> \/ Head(line) # " "
    THEN [value |-> value, line |-> line, stream |-> AfterLine(stream)]
    ELSE Continued(value \o <<"\n">> \o line, AfterLine(stream))

Continued(value, stream) ==
    ContinuedWith(value, rstrip(readline(stream)), stream)

\* int(value) of line 356 returns
IsInt(value) == value # <<>> /\ \A i \in 1..Len(value) : value[i] \in Digits

\* lines 355-367 with all_fields unset: a field that is no attribute of
\* the object is dropped
Assigned(self, name_lowercase, value) ==
    IF name_lowercase = <<"s", "i", "z", "e">>
    THEN IF IsInt(value)
         THEN [exc |-> "none", pkg |-> [self EXCEPT !["size"] = Num(IntOf(value))]]
         ELSE [exc |-> "ValueError", pkg |-> self]
    ELSE IF name_lowercase = <<"m", "d", "5", "s", "u", "m">>
    THEN [exc |-> "none", pkg |-> [self EXCEPT !["md5"] = Str(value)]]
    ELSE IF name_lowercase = <<"s", "h", "a", "2", "5", "6", "s", "u", "m">>
    THEN [exc |-> "none", pkg |-> [self EXCEPT !["sha256"] = Str(value)]]
    ELSE IF \E a \in DOMAIN InitAttrs : InitAttrs[a] = name_lowercase
    THEN [exc |-> "none",
          pkg |-> [self EXCEPT
                     ![CHOOSE a \in DOMAIN InitAttrs :
                           InitAttrs[a] = name_lowercase] = Str(value)]]
    ELSE [exc |-> "none", pkg |-> self]

\* the loop of read_control, lines 335-373, entered with a line read
RECURSIVE ControlLoop(_, _, _)

\* lines 355-370: r is the result of the assignment, c the continuation
AfterField(r, c) ==
    IF r.exc # "none" THEN r ELSE ControlLoop(c.line, c.stream, r.pkg)

\* lines 343-354
FieldRead(self, m, c) == AfterField(Assigned(self, lower(m.name), c.value), c)

\* lines 341-373
LineRead(self, m, stream) ==
    IF m.ok THEN FieldRead(self, m, Continued(m.value, stream))
    ELSE ControlLoop(readline(stream), AfterLine(stream), self)

ControlLoop(line, stream, self) ==
    IF line = <<>> THEN [exc |-> "none", pkg |-> self]
    ELSE LineRead(self, match(rstrip(line)), stream)

(* Package.read_control, lines 333-374: the record after the call, or the  *)
(* exception it raised                                                     *)
read_control(self, control) ==
    ControlLoop(readline(control), AfterLine(control), self)

\* the characters attribute values are drawn from
ValueChars == {"a", " ", "\n"}

Values == UNION {[1..k -> ValueChars] : k \in 0..MaxValueLen}

\* the sizes of the model
Sizes == {0, 7, 12}

\* the attributes of the recognized fields that hold strings
StrFields ==
    {PrintOrder[i] : i \in 1..Len(PrintOrder)} \ {"size", "installed_size"}

Named == [NewPackage EXCEPT !["package"] = Str(<<"a">>)]

\* a record with every recognized field set
FullRecord ==
    [a \in Attrs |->
        IF a \in StrFields THEN Str(<<"a">>)
        ELSE IF a \in {"size", "installed_size"} THEN Num(12)
        ELSE NewPackage[a]]

\* the records of the model: a named record with one more field set, and
\* the full record with or without its installed size
Records ==
    {[Named EXCEPT ![a] = Str(v)] : a \in StrFields, v \in Values}
        \cup {[Named EXCEPT ![a] = Num(n)] :
                 a \in {"size", "installed_size"}, n \in Sizes}
        \cup {FullRecord, [FullRecord EXCEPT !["installed_size"] = NoValue]}

NotRead == [exc |-> "unset", pkg |-> NewPackage]

CtlInit ==
    /\ rpc = "built"
    /\ record \in Records
    /\ rchecksum \in SUBSET {"md5", "sha256"}
    /\ text = <<>>
    /\ reread = NotRead

(* Package.print of the record *)
PrintRecord ==
    /\ rpc = "built"
    /\ text' = print(record, rchecksum)
    /\ rpc' = "printed"
    /\ UNCHANGED <<record, rchecksum, reread>>
    /\ UNCHANGED nonCtlVars

(* Package().read_control on the text printed *)
ReadControl ==
    /\ rpc = "printed"
    /\ reread' = read_control(NewPackage, text)
    /\ rpc' = "read"
    /\ UNCHANGED <<record, rchecksum, text>>
    /\ UNCHANGED nonCtlVars

CtlNext == PrintRecord \/ ReadControl

-----------------------------------------------------------------------------
(* A package set, src/opkg_make_index.py:647-686: the calls of add_package *)
(* make_index makes on the records of archives (lines 794-805) and         *)
(* read_packages_file makes on the blocks of an index file (lines          *)
(* 675-684).  A record is the fields Package, Architecture, Version and    *)
(* Filename; a name the control text does not give is None, written "".    *)

SetNames == {"", "foo", "None"}

SetArchitectures == {"", "mips"}

\* "1" and "01" compare equal; the empty string makes compare raise
SetVersions == { <<>>, <<"1">>, <<"0", "1">>, <<"2">> }

SetFilenames == {"a.ipk", "b.ipk"}

SetRecords ==
    [package : SetNames, architecture : SetArchitectures,
     version : SetVersions, filename : SetFilenames]

NoRecord == [package |-> "", architecture |-> "", version |-> <<>>,
             filename |-> ""]

NoReturn == [exc |-> "unset", ret |-> 0]

SetInit ==
    /\ spc = "open"
    /\ via \in {"make_index", "read_packages_file"}
    /\ pset = EmptyMap
    /\ before = EmptyMap
    /\ added = NoRecord
    /\ aopt = FALSE
    /\ aret = NoReturn
    /\ nadds = 0

\* the effect of a call of add_package: an exception leaves the caller
Added(r) ==
    /\ pset' = r.packages
    /\ aret' = [exc |-> r.exc, ret |-> r.ret]
    /\ spc' = IF r.exc = "none" THEN "added" ELSE "raised"

\* lines 794-805: make_index adds the record of an archive
AddFromArchive ==
    /\ via = "make_index"
    /\ spc \in {"open", "added"}
    /\ nadds < MaxAdds
    /\ \E pkg \in SetRecords, a \in BOOLEAN :
          /\ added' = pkg
          /\ aopt' = a
          /\ Added(add_package(pset, pkg, a))
    /\ before' = pset
    /\ nadds' = nadds + 1
    /\ UNCHANGED via
    /\ UNCHANGED nonSetVars

\* lines 675-684: read_packages_file adds a block that names a package
AddFromBlock ==
    /\ via = "read_packages_file"
    /\ spc \in {"open", "added"}
    /\ nadds < MaxAdds
    /\ \E pkg \in SetRecords :
          /\ pkg.package # ""
          /\ added' = pkg
          /\ Added(add_package(pset, pkg, FALSE))
    /\ aopt' = FALSE
    /\ before' = pset
    /\ nadds' = nadds + 1
    /\ UNCHANGED via
    /\ UNCHANGED nonSetVars

\* lines 681-684: a block without a package name ends the reading
EndOfBlocks ==
    /\ via = "read_packages_file"
    /\ spc \in {"open", "added"}
    /\ \E pkg \in SetRecords :
          /\ pkg.package = ""
          /\ added' = pkg
    /\ spc' = "eof"
    /\ UNCHANGED <<via, pset, before, aopt, aret, nadds>>
    /\ UNCHANGED nonSetVars

SetNext == AddFromArchive \/ AddFromBlock \/ EndOfBlocks

-----------------------------------------------------------------------------
(* Locale routing, src/opkg_make_index.py:719-728 and 838-864: the loop    *)
(* that writes the records of the package set, with locales_dir set or     *)
(* not.  Names and Depends fields are strings of characters.  The archives *)
(* of the package set lie in the root.                                     *)

VirtualLocale ==
    <<"v", "i", "r", "t", "u", "a", "l", "-", "l", "o", "c", "a",
      "l", "e", "-">>

LocaleBase ==
    <<"l", "o", "c", "a", "l", "e", "-", "b", "a", "s", "e", "-">>

IsLetter(c) ==
    \E i \in 1..26 : AsciiUpper[i] = c \/ AsciiLower[i] = c

\* what ([a-zA-Z]+) takes at the head of s
RECURSIVE LetterRun(_)
LetterRun(s) ==
    IF s # <<>> /\ IsLetter(Head(s)) THEN <<Head(s)>> \o LetterRun(Tail(s))
    ELSE <<>>

HasPrefix(s, p) == Len(s) >= Len(p) /\ SubSeq(s, 1, Len(p)) = p

\* s from position i on
From(s, i) == SubSeq(s, i, Len(s))

\* pkg.depends.split(','), line 844
RECURSIVE Split(_, _)
Split(s, cur) ==
    IF s = <<>> THEN <<cur>>
    ELSE IF Head(s) = "," THEN <<cur>> \o Split(Tail(s), <<>>)
    ELSE Split(Tail(s), cur \o <<Head(s)>>)

\* the positions at which virtual-locale-([a-zA-Z]+) matches in depend
VirtualAt(depend) ==
    {i \in 1..Len(depend) :
        /\ HasPrefix(From(depend, i), VirtualLocale)
        /\ LetterRun(From(depend, i + Len(VirtualLocale))) # <<>>}

\* the position the greedy .* of line 847 leaves the match at: the last
LastOf(S) == CHOOSE i \in S : \A j \in S : j <= i

\* group(1) of re.match('.*virtual-locale-([a-zA-Z]+).*', depend), or
\* the empty string when there is no match
GroupAt(depend, S) ==
    IF S = {} THEN <<>>
    ELSE LetterRun(From(depend, LastOf(S) + Len(VirtualLocale)))

match_virtual(depend) == GroupAt(depend, VirtualAt(depend))

\* group(1) of re.match('locale-base-([a-zA-Z]+)([-+])?.*', pkg.package)
match_by_pkg(package) ==
    IF HasPrefix(package, LocaleBase)
    THEN LetterRun(From(package, Len(LocaleBase) + 1))
    ELSE <<>>

\* lines 846-852: the locale after the loop over the dependencies
RECURSIVE LocaleLoop(_, _, _)
LocaleLoop(depends, package, locale) ==
    IF depends = <<>> THEN locale
    ELSE LocaleLoop(Tail(depends), package,
            IF match_by_pkg(package) # <<>> THEN match_by_pkg(package)
            ELSE IF match_virtual(Head(depends)) # <<>>
            THEN match_virtual(Head(depends))
            ELSE locale)

\* lines 843-853: the locale a package is routed to, or the empty string
\* when it is written to the index
LocaleOf(configured, pkg) ==
    IF configured /\ pkg.depends.set /\ pkg.depends.s # <<>>
    THEN LocaleLoop(Split(pkg.depends.s, <<>>), pkg.package, <<>>)
    ELSE <<>>

Depends(s) == [set |-> TRUE, s |-> s]

NoDepends == [set |-> FALSE, s |-> <<>>]

NameFoo == <<"f", "o", "o">>

NameLocaleBaseDe ==
    <<"l", "o", "c", "a", "l", "e", "-", "b", "a", "s", "e", "-",
      "d", "e">>

\* the package names of the model, in the order names.sort() gives
LocNameOrder == <<NameFoo, NameLocaleBaseDe>>

DepLibc == <<"l", "i", "b", "c">>

DepVirtualFr ==
    <<"v", "i", "r", "t", "u", "a", "l", "-", "l", "o", "c", "a",
      "l", "e", "-", "f", "r">>

\* the Depends fields of the model
DependsValues ==
    {NoDepends, Depends(<<>>), Depends(DepLibc), Depends(DepVirtualFr),
     Depends(DepLibc \o <<",", " ">> \o DepVirtualFr),
     Depends(VirtualLocale \o <<"d", "e", ",">> \o DepVirtualFr)}

LocRecord(package, depends) == [package |-> package, depends |-> depends]

NotHeld == [package |-> <<>>, depends |-> NoDepends]

\* where the archive of a record lies
InRoot == [place |-> "root", locale |-> <<>>]

InLocale(x) == [place |-> "locale", locale |-> x]

\* the package sets of the model: each name held with some Depends field,
\* or not held
LocSets ==
    {f \in [1..Len(LocNameOrder) ->
                [held : BOOLEAN, depends : DependsValues]] :
        \A i \in 1..Len(LocNameOrder) :
            ~f[i].held => f[i].depends = NoDepends}

LocInit ==
    /\ lpc = 1
    /\ locales_dir \in BOOLEAN
    /\ lroot \in BOOLEAN
    /\ \E f \in LocSets :
          lset = [i \in 1..Len(LocNameOrder) |->
                     IF f[i].held
                     THEN LocRecord(LocNameOrder[i], f[i].depends)
                     ELSE NotHeld]
    /\ lplace = [i \in 1..Len(LocNameOrder) |-> InRoot]
    /\ lindex = <<>>
    /\ lerrors = 0

\* lines 842-864 for a name that is not held: no turn of the loop
SkipName ==
    /\ lpc <= Len(LocNameOrder)
    /\ lset[lpc] = NotHeld
    /\ lpc' = lpc + 1
    /\ UNCHANGED <<locales_dir, lroot, lset, lplace, lindex, lerrors>>
    /\ UNCHANGED nonLocVars

\* lines 856-861: the record is written to the index
WriteRecord ==
    /\ lpc <= Len(LocNameOrder)
    /\ lset[lpc] # NotHeld
    /\ LocaleOf(locales_dir, lset[lpc]) = <<>>
    /\ lindex' = Append(lindex, lset[lpc])
    /\ lpc' = lpc + 1
    /\ UNCHANGED <<locales_dir, lroot, lset, lplace, lerrors>>
    /\ UNCHANGED nonLocVars

\* lines 853-855 and to_locale, lines 719-728: the archive is moved to the
\* directory of its locale, which os.mkdir makes when the directory above
\* it exists
RouteRecord ==
    /\ lpc <= Len(LocNameOrder)
    /\ lset[lpc] # NotHeld
    /\ LocaleOf(locales_dir, lset[lpc]) # <<>>
    /\ lroot
    /\ lplace' = [lplace EXCEPT
                    ![lpc] = InLocale(LocaleOf(locales_dir, lset[lpc]))]
    /\ lpc' = lpc + 1
    /\ UNCHANGED <<locales_dir, lroot, lset, lindex, lerrors>>
    /\ UNCHANGED nonLocVars

\* lines 724-725 and 862-864: os.mkdir raises OSError when the directory
\* above the locale directory is missing; the loop goes on
RouteFails ==
    /\ lpc <= Len(LocNameOrder)
    /\ lset[lpc] # NotHeld
    /\ LocaleOf(locales_dir, lset[lpc]) # <<>>
    /\ ~lroot
    /\ lerrors' = lerrors + 1
    /\ lpc' = lpc + 1
    /\ UNCHANGED <<locales_dir, lroot, lset, lplace, lindex>>
    /\ UNCHANGED nonLocVars

LocNext == SkipName \/ WriteRecord \/ RouteRecord \/ RouteFails

-----------------------------------------------------------------------------
(* The sync run, src/repo_sync.py:60-251.  A source names an architecture  *)
(* and a release; the assets of a release are those the filter of lines    *)
(* 113-175 lets through.  A file of the repository is the directory of its *)
(* architecture, the prefix of its name (the part before the first "_")    *)
(* and the rest of the name.  A query or a download fails or not as the    *)
(* network decides.                                                        *)

IpkFile(d, prefix, rest) == [dir |-> d, prefix |-> prefix, rest |-> rest]

\* sources.json: each source with the asset its release holds
Sources ==
    << [arch |-> "mips", asset |-> IpkFile("mips", "foo", "2_mips.ipk")],
       [arch |-> "arm", asset |-> IpkFile("arm", "bar", "1_arm.ipk")] >>

\* the files the repository can hold before the run: an older version of
\* an asset, the assets, and files no source names
RepoFiles ==
    {IpkFile("mips", "foo", "1_mips.ipk"), IpkFile("mips", "foo", "2_mips.ipk"),
     IpkFile("mips", "zed", "1_mips.ipk"), IpkFile("arm", "bar", "1_arm.ipk"),
     IpkFile("x86", "zed", "1_x86.ipk")}

DirsOf(fs) == {f.dir : f \in fs}

SyncInitOf(fs) ==
    /\ spos = 1
    /\ sfiles = fs
    /\ sdirs = DirsOf(fs)
    /\ has_network_errors = FALSE
    /\ download_failed = FALSE
    /\ global_expected_files = {}
    /\ gc = "pending"
    /\ gc_removed = [files |-> {}, dirs |-> {}]

SyncInit == \E fs \in SUBSET RepoFiles : SyncInitOf(fs)

\* lines 90-104: the release query fails; the directory of the
\* architecture has been made
QueryFails ==
    /\ spos <= Len(Sources)
    /\ sdirs' = sdirs \cup {Sources[spos].arch}
    /\ has_network_errors' = TRUE
    /\ spos' = spos + 1
    /\ UNCHANGED <<sfiles, download_failed, global_expected_files, gc,
                   gc_removed>>
    /\ UNCHANGED nonSyncVars

\* lines 199-209: the files of the directory with the prefix of the asset
\* and another name are removed
LocalCleanup(fs, asset) ==
    {f \in fs : ~(f.dir = asset.dir /\ f.prefix = asset.prefix /\ f # asset)}

\* lines 90-209 with the release query answered: the asset is expected,
\* downloaded if the repository does not hold it, and older files of its
\* prefix are removed
SyncSource ==
    /\ spos <= Len(Sources)
    /\ sdirs' = sdirs \cup {Sources[spos].arch}
    /\ global_expected_files' =
          global_expected_files \cup {Sources[spos].asset}
    /\ sfiles' = LocalCleanup(sfiles \cup {Sources[spos].asset},
                              Sources[spos].asset)
    /\ spos' = spos + 1
    /\ UNCHANGED <<has_network_errors, download_failed, gc, gc_removed>>
    /\ UNCHANGED nonSyncVars

\* lines 185-197: the download of the asset fails (download_file returns
\* False); nothing is recorded, and the local cleanup goes on
DownloadFails ==
    /\ spos <= Len(Sources)
    /\ Sources[spos].asset \notin sfiles
    /\ sdirs' = sdirs \cup {Sources[spos].arch}
    /\ global_expected_files' =
          global_expected_files \cup {Sources[spos].asset}
    /\ sfiles' = LocalCleanup(sfiles, Sources[spos].asset)
    /\ download_failed' = TRUE
    /\ spos' = spos + 1
    /\ UNCHANGED <<has_network_errors, gc, gc_removed>>
    /\ UNCHANGED nonSyncVars

\* the files and directories the garbage collection removes, lines
\* 223-242: the files not expected, then the directories left empty
Orphans(fs, expected) == fs \ expected

EmptyDirs(ds, fs) == ds \ DirsOf(fs)

\* lines 218-242: the garbage collection runs
CollectGarbage ==
    /\ spos > Len(Sources)
    /\ gc = "pending"
    /\ ~has_network_errors
    /\ sfiles' = sfiles \ Orphans(sfiles, global_expected_files)
    /\ sdirs' = sdirs \ EmptyDirs(sdirs, sfiles \cap global_expected_files)
    /\ gc_removed' =
          [files |-> Orphans(sfiles, global_expected_files),
           dirs |-> EmptyDirs(sdirs, sfiles \cap global_expected_files)]
    /\ gc' = "ran"
    /\ UNCHANGED <<spos, has_network_errors, download_failed,
                   global_expected_files>>
    /\ UNCHANGED nonSyncVars

\* lines 243-244: the garbage collection is skipped
SkipGarbage ==
    /\ spos > Len(Sources)
    /\ gc = "pending"
    /\ has_network_errors
    /\ gc' = "skipped"
    /\ UNCHANGED <<spos, sfiles, sdirs, has_network_errors, download_failed,
                   global_expected_files, gc_removed>>
    /\ UNCHANGED nonSyncVars

SyncNext ==
    \/ QueryFails
    \/ SyncSource
    \/ DownloadFails
    \/ CollectGarbage
    \/ SkipGarbage

-----------------------------------------------------------------------------
(* The update cycles of the dashboard, src/dashboard.py:133-142 and        *)
(* 229-234, src/repo_update.py:18-47, src/repo_publish.py:85-152.          *)
(*                                                                         *)
(* The dashboard names the update cycle repo_update.run_all; the cycle     *)
(* repo_update.py defines is main (lines 34-47): repo_sync.py, then        *)
(* repo_publish.py, each run to its end, and the cycle is modelled as      *)
(* that function.  A cycle runs in a thread of its own: the thread         *)
(* trigger_update starts, or a worker thread of the BackgroundScheduler,   *)
(* which starts no second instance of a job while one is running           *)
(* (max_instances is left at its default of 1) and skips that run          *)
(* instead.  repo_publish rebuilds the index of each architecture in       *)
(* turn, in the order the set of architectures iterates.                   *)

\* the architectures repo_sources.json names (repo_publish.py:86-89)
Archs == {"mips", "arm"}

Threads == 1..MaxThreads

NotStarted == [origin |-> "none", at |-> "none", todo |-> {}, arch |-> "none"]

\* a thread at the start of the cycle: repo_update.py:38
StartedBy(origin) ==
    [origin |-> origin, at |-> "sync", todo |-> {}, arch |-> "none"]

Running(ts) == {t \in DOMAIN ts : ts[t].at \in {"sync", "publish"}}

\* the thread a start takes: the threads are numbered as they start
NextThread(ts) ==
    CHOOSE t \in DOMAIN ts :
        /\ ts[t].origin = "none"
        /\ \A u \in DOMAIN ts : u < t => ts[u].origin # "none"

HasFreeThread(ts) == \E t \in DOMAIN ts : ts[t].origin = "none"

UpdInit ==
    /\ threads = [t \in Threads |-> NotStarted]
    /\ nskipped = 0

\* dashboard.py:133-142: POST /api/update starts a thread that runs the
\* cycle and answers at once
trigger_update ==
    /\ HasFreeThread(threads)
    /\ threads' = [threads EXCEPT ![NextThread(threads)] = StartedBy("post")]
    /\ UNCHANGED nskipped
    /\ UNCHANGED nonUpdVars

\* an instance of the job of the scheduler is running
JobRuns(ts) == \E t \in Running(ts) : ts[t].origin = "job"

\* dashboard.py:232: the interval elapses and the scheduler runs the job
scheduled_job ==
    /\ HasFreeThread(threads)
    /\ ~JobRuns(threads)
    /\ threads' = [threads EXCEPT ![NextThread(threads)] = StartedBy("job")]
    /\ UNCHANGED nskipped
    /\ UNCHANGED nonUpdVars

\* dashboard.py:232: the interval elapses while the job is running, and
\* the scheduler skips the run
skipped_job ==
    /\ JobRuns(threads)
    /\ nskipped < MaxSkipped
    /\ nskipped' = nskipped + 1
    /\ UNCHANGED threads
    /\ UNCHANGED nonUpdVars

\* repo_update.py:38-43: repo_sync.py ended well, repo_publish.py starts
\* with the architectures of the sources
sync_done(t) ==
    /\ threads[t].at = "sync"
    /\ threads' = [threads EXCEPT ![t].at = "publish", ![t].todo = Archs]
    /\ UNCHANGED nskipped
    /\ UNCHANGED nonUpdVars

\* repo_update.py:38-40: repo_sync.py failed and the cycle ends
sync_failed(t) ==
    /\ threads[t].at = "sync"
    /\ threads' = [threads EXCEPT ![t].at = "failed"]
    /\ UNCHANGED nskipped
    /\ UNCHANGED nonUpdVars

\* repo_publish.py:91-114: the index build of the next architecture starts
build_starts(t, a) ==
    /\ threads[t].at = "publish"
    /\ threads[t].arch = "none"
    /\ a \in threads[t].todo
    /\ threads' = [threads EXCEPT ![t].arch = a,
                                  ![t].todo = threads[t].todo \ {a}]
    /\ UNCHANGED nskipped
    /\ UNCHANGED nonUpdVars

\* repo_publish.py:115-152: the index build of the architecture ends
build_ends(t) ==
    /\ threads[t].at = "publish"
    /\ threads[t].arch # "none"
    /\ threads' = [threads EXCEPT ![t].arch = "none"]
    /\ UNCHANGED nskipped
    /\ UNCHANGED nonUpdVars

\* repo_publish.py:154-173, repo_update.py:47: the cycle ends
publish_done(t) ==
    /\ threads[t].at = "publish"
    /\ threads[t].arch = "none"
    /\ threads[t].todo = {}
    /\ threads' = [threads EXCEPT ![t].at = "ended"]
    /\ UNCHANGED nskipped
    /\ UNCHANGED nonUpdVars

UpdNext ==
    \/ trigger_update
    \/ scheduled_job
    \/ skipped_job
    \/ \E t \in Threads : sync_done(t)
    \/ \E t \in Threads : sync_failed(t)
    \/ \E t \in Threads, a \in Archs : build_starts(t, a)
    \/ \E t \in Threads : build_ends(t)
    \/ \E t \in Threads : publish_done(t)

-----------------------------------------------------------------------------
(* The ar container, src/opkg_make_index.py:54-114.                        *)
(*                                                                         *)
(* The file is its bytes: the magic line, then for each member a header    *)
(* of 60 bytes, the data, and a newline after data of odd size.  A         *)
(* position is a count of bytes from the start of the file, as f.tell()    *)
(* gives it.  The members of a container have different names.             *)

ArMagic == <<"!", "<", "a", "r", "c", "h", ">", "\n">>

\* the byte 0x60, the grave accent
Grave == "grave"

\* Field lengths from /usr/include/ar.h, line 93
ar_field_lens == <<16, 12, 6, 6, 8, 10, 2>>

Spaces(n) == [i \in 1..n |-> " "]

\* s.ljust(n)
Ljust(s, n) == s \o Spaces(n - Len(s))

\* the header ar writes for a member: name/, mtime, uid, gid, mode, size,
\* and the two bytes that end it
ArHeader(m) ==
    Ljust(m.name \o <<"/">>, ar_field_lens[1])
        \o Ljust(<<"0">>, ar_field_lens[2])
        \o Ljust(<<"0">>, ar_field_lens[3])
        \o Ljust(<<"0">>, ar_field_lens[4])
        \o Ljust(<<"1", "0", "0", "6", "4", "4">>, ar_field_lens[5])
        \o Ljust(Decimal(m.size), ar_field_lens[6])
        \o <<Grave, "\n">>

ArData(n) == [i \in 1..n |-> "d"]

ArMember(m) ==
    ArHeader(m) \o ArData(m.size)
        \o (IF m.size % 2 = 1 THEN <<"\n">> ELSE <<>>)

RECURSIVE ArBytes(_)
ArBytes(ms) ==
    IF ms = <<>> THEN <<>> ELSE ArMember(Head(ms)) \o ArBytes(Tail(ms))

\* the member names of the model and a name no container holds
MemberNames == {<<"a">>, <<"b">>, <<"c">>}

AbsentName == <<"x">>

MemberSizes == 0..MaxMemberSize

\* the containers: the members in any order, each of any size
Containers ==
    {ms \in UNION {[1..n -> [name : MemberNames, size : MemberSizes]] :
                      n \in 0..Cardinality(MemberNames)} :
        \A i, j \in 1..Len(ms) : ms[i].name = ms[j].name => i = j}

\* self.f.readline() at position pos
ReadLineAt(bytes, pos) == readline(SubSeq(bytes, pos + 1, Len(bytes)))

\* s[a:b]
Slice(s, a, b) == SubSeq(s, a + 1, IF b < Len(s) THEN b ELSE Len(s))

\* s.strip()
strip(s) == rstrip(lstrip(s))

\* the start of field i in the header line
RECURSIVE FieldStart(_)
FieldStart(i) ==
    IF i = 1 THEN 0 ELSE FieldStart(i - 1) + ar_field_lens[i - 1]

\* lines 90-97: the fields of the header line, the grave accents removed
Descriptor(line) ==
    [i \in 1..Len(ar_field_lens) |->
        strip(Slice(SelectSeq(line, LAMBDA c : c # Grave), FieldStart(i),
                    FieldStart(i) + ar_field_lens[i]))]

\* lines 100-103: the name without the optional / terminator
MemberName(field) ==
    IF field[Len(field)] = "/" THEN SubSeq(field, 1, Len(field) - 1)
    ELSE field

NoSection == [kind |-> "none", offset |-> 0, size |-> 0]

\* FileSection(f, offset, size), lines 28-32
FileSection(offset, size) ==
    [kind |-> "section", offset |-> offset, size |-> size]

Raised(exc) == [kind |-> exc, offset |-> 0, size |-> 0]

\* the ArFile object with the position of its file, and what a call gave
ArState(pos, entries, read, offset) ==
    [pos |-> pos, directory |-> entries, directoryRead |-> read,
     directoryOffset |-> offset]

Gave(ret, ar) == [ret |-> ret, ar |-> ar]

RECURSIVE ScanLoop(_, _, _)

\* lines 104-114: the member is entered into the directory; at the name
\* asked for the scan stops, else the data is skipped
ScanMember(bytes, ar, fname, memberName, size, tell) ==
    IF memberName = fname
    THEN Gave(FileSection(tell, size),
              ArState(tell,
                      Put(ar.directory, memberName,
                          [offset |-> tell, size |-> size]),
                      ar.directoryRead, tell + size))
    ELSE ScanLoop(bytes,
                  ArState(tell + size + (size % 2),
                          Put(ar.directory, memberName,
                              [offset |-> tell, size |-> size]),
                          ar.directoryRead, ar.directoryOffset),
                  fname)

\* lines 90-103: descriptor is the fields of the header line, tell the
\* position after the line
ScanHeader(bytes, ar, fname, descriptor, tell) ==
    IF ~IsInt(descriptor[6])
    THEN Gave(Raised("ValueError"),
              ArState(tell, ar.directory, ar.directoryRead,
                      ar.directoryOffset))
    ELSE IF descriptor[1] = <<>>
    THEN Gave(Raised("IndexError"),
              ArState(tell, ar.directory, ar.directoryRead,
                      ar.directoryOffset))
    ELSE ScanMember(bytes, ar, fname, MemberName(descriptor[1]),
                    IntOf(descriptor[6]), tell)

\* lines 86-89: line is the line after a newline
ScanAfterNewline(bytes, ar, fname, line) ==
    IF line = <<>>
    THEN Gave(Raised("IOError"),
              ArState(ar.pos + 1, ar.directory, ar.directoryRead,
                      ar.directoryOffset))
    ELSE ScanHeader(bytes, ar, fname, Descriptor(line),
                    ar.pos + 1 + Len(line))

\* the same without the step over a newline
ScanLine_NoNewline(bytes, ar, fname, line) ==
    IF line = <<>>
    THEN Gave(Raised("IOError"),
              ArState(ar.pos, ar.directory, TRUE, ar.directoryOffset))
    ELSE ScanHeader(bytes, ar, fname, Descriptor(line), ar.pos + Len(line))

\* lines 81-89: line is what readline gave at ar.pos
ScanLine(bytes, ar, fname, line) ==
    IF line = <<>>
    THEN Gave(Raised("IOError"),
              ArState(ar.pos, ar.directory, TRUE, ar.directoryOffset))
    ELSE IF line = <<"\n">>
    THEN ScanAfterNewline(bytes, ar, fname, ReadLineAt(bytes, ar.pos + 1))
    ELSE ScanHeader(bytes, ar, fname, Descriptor(line), ar.pos + Len(line))

\* the loop of lines 80-114
ScanLoop(bytes, ar, fname) ==
    ScanLine(bytes, ar, fname, ReadLineAt(bytes, ar.pos))

(* ArFile._scan, lines 77-114; a scan that returns None makes open raise   *)
(* IOError (lines 73-74)                                                   *)
scan(bytes, ar, fname) ==
    ScanLoop(bytes,
             ArState(ar.directoryOffset, ar.directory, ar.directoryRead,
                     ar.directoryOffset),
             fname)

(* ArFile.open, lines 65-75 *)
open(bytes, ar, fname) ==
    IF fname \in DOMAIN ar.directory
    THEN Gave(FileSection(ar.directory[fname].offset,
                          ar.directory[fname].size),
              ArState(ar.directory[fname].offset, ar.directory,
                      ar.directoryRead, ar.directoryOffset))
    ELSE IF ar.directoryRead
    THEN Gave(Raised("IOError"), ar)
    ELSE scan(bytes, ar, fname)

NoRequest == [fname |-> <<>>, ret |-> NoSection]

EmptyDirectory == [n \in {} |-> NoSection]

\* ArFile(f, fn), lines 56-63, over the container ms
ArInitOf(ms) ==
    /\ members = ms
    /\ arbytes = ArMagic \o ArBytes(ms)
    /\ arfile = ArState(Len(ArMagic), EmptyDirectory, FALSE, Len(ArMagic))
    /\ request = NoRequest
    /\ nopens = 0

ArInit == \E ms \in Containers : ArInitOf(ms)

Opened(fname, r) ==
    /\ arfile' = r.ar
    /\ request' = [fname |-> fname, ret |-> r.ret]

\* ar.open(fname)
Open ==
    /\ nopens < MaxOpens
    /\ nopens' = nopens + 1
    /\ \E fname \in MemberNames \cup {AbsentName} :
          Opened(fname, open(arbytes, arfile, fname))
    /\ UNCHANGED <<members, arbytes>>
    /\ UNCHANGED nonArVars

ArNext == Open

-----------------------------------------------------------------------------
(* A section of a file, src/opkg_make_index.py:25-51.                      *)
(*                                                                         *)
(* The underlying file f has MaxFileLen bytes and a position; the section  *)
(* is the size bytes from offset on.  A read is told by the positions of   *)
(* f it returned the bytes of.                                             *)

\* the sections of the file: offset + size is within the file
Sections ==
    {s \in [offset : 0..MaxFileLen, size : 0..MaxFileLen] :
        s.offset + s.size <= MaxFileLen}

\* the arguments of seek and read the model draws
SeekOffsets == -1..2

Whences == {0, 1, 2}

ReadSizes == -1..2

\* f.seek(target, 0): a negative target raises OSError and leaves the
\* position
FSeek(pos, target) ==
    IF target < 0 THEN [exc |-> "OSError", pos |-> pos]
    ELSE [exc |-> "none", pos |-> target]

(* FileSection.seek, lines 34-42 *)
seek(s, pos, offset, whence) ==
    IF whence = 0 THEN FSeek(pos, offset + s.offset)
    ELSE IF whence = 1 THEN FSeek(pos, pos + offset)
    ELSE FSeek(pos, s.offset + s.size + offset)

(* FileSection.tell, lines 47-48 *)
tell(s, pos) == pos - s.offset

\* f.read(size): the bytes from the position on, size of them or, with a
\* negative size, all up to the end of the file
FRead(pos, size) ==
    IF pos >= MaxFileLen THEN pos
    ELSE IF size < 0 \/ pos + size > MaxFileLen THEN MaxFileLen
    ELSE pos + size

(* FileSection.read, lines 50-51: the position after the read *)
read(s, pos, size) == FRead(pos, size)

NoCall == [op |-> "none", arg |-> 0, whence |-> 0, exc |-> "none",
           from |-> 0, to |-> 0]

\* FileSection(f, offset, size), lines 28-32: seek(0, 0)
SecInitOf(s) ==
    /\ section = s
    /\ upos = seek(s, 0, 0, 0).pos
    /\ call = NoCall
    /\ ncalls = 0

SecInit == \E s \in Sections : SecInitOf(s)

Sought(offset, whence, r) ==
    /\ upos' = r.pos
    /\ call' = [op |-> "seek", arg |-> offset, whence |-> whence,
                exc |-> r.exc, from |-> upos, to |-> r.pos]

\* section.seek(offset, whence)
Seek ==
    /\ ncalls < MaxCalls
    /\ ncalls' = ncalls + 1
    /\ \E offset \in SeekOffsets, whence \in Whences :
          Sought(offset, whence, seek(section, upos, offset, whence))
    /\ UNCHANGED section
    /\ UNCHANGED nonSecVars

\* section.read(size), section.read()
Read ==
    /\ ncalls < MaxCalls
    /\ ncalls' = ncalls + 1
    /\ \E size \in ReadSizes :
          /\ upos' = read(section, upos, size)
          /\ call' = [op |-> "read", arg |-> size, whence |-> 0,
                      exc |-> "none", from |-> upos,
                      to |-> read(section, upos, size)]
    /\ UNCHANGED section
    /\ UNCHANGED nonSecVars

SecNext == Seek \/ Read

-----------------------------------------------------------------------------
(* Builds that run at the same time: opkg_make_index.py, make_index, lines   *)
(* 834-873, called with one packages_filename by several builds.  A build    *)
(* is a process of its own or a thread of a process that runs other builds.  *)

MaxPid == 2

Builders == {"b1", "b2"}
Pids == 1 .. MaxPid

\* a name is the name of the index and the suffixes after it
packages_filename == <<"Packages", <<>>>>
gzip_filename == <<"Packages.gz", <<>>>>

\* lines 836 and 869: "%s.%d" % (filename, os.getpid())
TmpName(filename, b) == <<filename[1], filename[2] \o <<bproc[b]>>>>

tmp_packages_filename(b) == TmpName(packages_filename, b)
tmp_gzip_filename(b) == TmpName(gzip_filename, b)

Names == {"Packages", "Packages.gz"} \X ({<<>>} \cup {<<p>> : p \in Pids})

\* a file is known by the build that created it
NoInode == [by |-> "none", kind |-> "none"]
OldInode(kind) == [by |-> "old", kind |-> kind]
Inodes == [by : Builders \cup {"old"}, kind : {"Packages", "Packages.gz"}]

\* open(name, "w"): the file of that name, created when there is none
Opened_w(name, b) ==
    IF dirnames[name] # NoInode THEN dirnames[name]
    ELSE [by |-> b, kind |-> name[1]]

\* the files a build holds open
HeldBy(b) == {i \in Inodes : b \in writing[i]}

TmpInitOf(procs, old) ==
    /\ bproc = procs
    /\ bpc = [b \in Builders |-> "start"]
    /\ dirnames = [n \in Names |->
                  IF old # NoInode /\ n \in {packages_filename, gzip_filename}
                  THEN OldInode(n[1]) ELSE NoInode]
    /\ writing = [i \in Inodes |-> {}]

TmpInit ==
    \E procs \in [Builders -> Pids], old \in {NoInode, OldInode("Packages")} :
        TmpInitOf(procs, old)

\* lines 835-837: pkgs_file = open(tmp_packages_filename, "w")
open_tmp(b) ==
    /\ bpc[b] = "start"
    /\ LET name == tmp_packages_filename(b)
           file == Opened_w(name, b)
       IN  /\ dirnames' = [dirnames EXCEPT ![name] = file]
           /\ writing' = [writing EXCEPT ![file] = @ \cup {b}]
    /\ bpc' = [bpc EXCEPT ![b] = "writing"]
    /\ UNCHANGED bproc
    /\ UNCHANGED nonTmpVars

\* lines 838-868: the records are written, pkgs_file.close()
close_tmp(b) ==
    /\ bpc[b] = "writing"
    /\ writing' = [i \in Inodes |-> writing[i] \ {b}]
    /\ bpc' = [bpc EXCEPT ![b] = "closed"]
    /\ UNCHANGED <<bproc, dirnames>>
    /\ UNCHANGED nonTmpVars

\* lines 869-871: gzip -9c < tmp_packages_filename > tmp_gzip_filename in a
\* shell, which runs nothing when the input is not there; its status is
\* not looked at
run_gzip(b) ==
    /\ bpc[b] = "closed"
    /\ dirnames' = IF dirnames[tmp_packages_filename(b)] = NoInode THEN dirnames
                ELSE [dirnames EXCEPT ![tmp_gzip_filename(b)] =
                          Opened_w(tmp_gzip_filename(b), b)]
    /\ bpc' = [bpc EXCEPT ![b] = "gzipped"]
    /\ UNCHANGED <<bproc, writing>>
    /\ UNCHANGED nonTmpVars

\* os.rename(src, dst) of a build at line `at`: OSError when src is not there
Rename(b, at, src, dst, then) ==
    /\ bpc[b] = at
    /\ IF dirnames[src] = NoInode
       THEN /\ bpc' = [bpc EXCEPT ![b] = "raised"]
            /\ UNCHANGED dirnames
       ELSE /\ bpc' = [bpc EXCEPT ![b] = then]
            /\ dirnames' = [dirnames EXCEPT ![dst] = dirnames[src], ![src] = NoInode]
    /\ UNCHANGED <<bproc, writing>>
    /\ UNCHANGED nonTmpVars

\* line 872: os.rename(tmp_packages_filename, packages_filename)
rename_packages(b) ==
    Rename(b, "gzipped", tmp_packages_filename(b), packages_filename,
           "renamed")

\* line 873: os.rename(tmp_gzip_filename, gzip_filename)
rename_gzip(b) ==
    Rename(b, "renamed", tmp_gzip_filename(b), gzip_filename, "returned")

AnyOpenTmp == \E b \in Builders : open_tmp(b)
AnyCloseTmp == \E b \in Builders : close_tmp(b)
AnyRunGzip == \E b \in Builders : run_gzip(b)
AnyRenamePackages == \E b \in Builders : rename_packages(b)
AnyRenameGzip == \E b \in Builders : rename_gzip(b)

TmpNext ==
    \/ AnyOpenTmp
    \/ AnyCloseTmp
    \/ AnyRunGzip
    \/ AnyRenamePackages
    \/ AnyRenameGzip

-----------------------------------------------------------------------------
(* The key files at start-up: paths.py, ensure_folders, lines 100-118, and   *)
(* crypto_utils.generate_keypair.  A key pair is a seed and the fingerprint  *)
(* drawn for it.                                                             *)

MaxStartups == 1

KeyNames == {"secret.key", "public.key", "secret.pub"}

\* the file generate_keypair writes under a name for a pair
FileOfPair(n, seed, fp) ==
    IF n = "secret.key"
    THEN SecretKeyFile(PK_ALGO, NoKdf, fp, seed, VerifyKeyOf(seed))
    ELSE PublicKeyFile(PK_ALGO, fp, VerifyKeyOf(seed))

\* the present files are files of one pair
OnePair(fs) ==
    \E seed \in Seeds, fp \in Fingerprints :
        \A n \in KeyNames : fs[n] \in {NoKeyFile, FileOfPair(n, seed, fp)}

KeyDirs == {fs \in [KeyNames -> {NoKeyFile}
                       \cup {FileOfPair(n, seed, fp) :
                               n \in KeyNames, seed \in Seeds,
                               fp \in Fingerprints}] : OnePair(fs)}

exists(n) == kfiles[n] # NoKeyFile

KeyInitOf(fs) ==
    /\ kfiles = fs
    /\ kpc = "start"
    /\ kstart = fs
    /\ nstarts = 0

KeyInit == \E fs \in KeyDirs : KeyInitOf(fs)

\* lines 104-107: no secret.key, generate_keypair(KEYS_DIR/secret) writes
\* secret.pub and secret.key of a new pair
generate_keys ==
    /\ kpc = "start"
    /\ ~exists("secret.key")
    /\ \E seed \in Seeds, fp \in Fingerprints :
          kfiles' = [kfiles EXCEPT
                        !["secret.pub"] = FileOfPair("secret.pub", seed, fp),
                        !["secret.key"] = FileOfPair("secret.key", seed, fp)]
    /\ kpc' = "generated"
    /\ UNCHANGED <<kstart, nstarts>>
    /\ UNCHANGED nonKeyVars

\* shutil.copy(secret.pub, public.key) where there is a secret.pub and no
\* public.key
copy_pub ==
    IF exists("secret.pub") /\ ~exists("public.key")
    THEN [kfiles EXCEPT !["public.key"] = kfiles["secret.pub"]]
    ELSE kfiles

\* lines 109-112: the new secret.pub becomes public.key if there is none
copy_generated ==
    /\ kpc = "generated"
    /\ kfiles' = copy_pub
    /\ kpc' = "returned"
    /\ UNCHANGED <<kstart, nstarts>>
    /\ UNCHANGED nonKeyVars

\* lines 113-118: there is a secret.key; a missing public.key is restored
\* from secret.pub
restore_public ==
    /\ kpc = "start"
    /\ exists("secret.key")
    /\ kfiles' = copy_pub
    /\ kpc' = "returned"
    /\ UNCHANGED <<kstart, nstarts>>
    /\ UNCHANGED nonKeyVars

\* the program is started again
start_again ==
    /\ kpc = "returned"
    /\ nstarts < MaxStartups
    /\ nstarts' = nstarts + 1
    /\ kstart' = kfiles
    /\ kpc' = "start"
    /\ UNCHANGED kfiles
    /\ UNCHANGED nonKeyVars

KeyNext ==
    \/ generate_keys
    \/ copy_generated
    \/ restore_public
    \/ start_again

-----------------------------------------------------------------------------
(* The full update cycle: repo_update.py, main, lines 34-47, with            *)
(* run_script, lines 18-32.  Each script is run as a child process of its    *)
(* own and main sees its exit status: repo_sync.py ends with whatever        *)
(* "run()" under __main__ leaves (lines 253-254), repo_publish.py with       *)
(* what its main leaves.                                                     *)

MaxCycles == 2

SourcesStates == {"missing", "unparsable", "ok"}

Scripts == {"repo_sync.py", "repo_publish.py"}

\* no exit status yet
NotEnded == <<>>

Exit(code) == <<code>>

NoChild == [sync |-> NotEnded, publish |-> NotEnded]

CycInitOf(src, present) ==
    /\ mpc = "main"
    /\ sources_json = src
    /\ scripts = present
    /\ sync_run = "none"
    /\ returncode = NoChild
    /\ ncycles = 0

CycInit ==
    \E src \in SourcesStates, present \in SUBSET Scripts :
        CycInitOf(src, present)

\* repo_sync.py, run, lines 60-75 and 246-251: False when the sources file
\* is missing or is not JSON, else True
run_returns(src) == IF src = "ok" THEN "True" ELSE "False"

\* repo_sync.py, lines 253-254: run() is called and its value dropped; the
\* status is 1 only for an exception that leaves run()
ExitOfSync(r) == IF r = "raised" THEN Exit(1) ELSE Exit(0)

\* repo_publish.py, main, lines 69-83: sys.exit(1) for a sources file that
\* is missing or is not JSON
ExitOfPublish(src) == IF src = "ok" THEN Exit(0) ELSE Exit(1)

\* run_script, lines 20-23: the script is not there
script_missing(script) == script \notin scripts

\* run_script, lines 26-32: check=True raises CalledProcessError for a
\* status other than 0, and run_script returns False
run_script_ok(code) == code = Exit(0)

\* main, line 38, run_script lines 20-28: repo_sync.py is started, or is
\* not there and main leaves with sys.exit(1)
start_sync ==
    /\ mpc = "main"
    /\ mpc' = IF script_missing("repo_sync.py") THEN "exit1" ELSE "sync"
    /\ UNCHANGED <<sources_json, scripts, sync_run, returncode, ncycles>>
    /\ UNCHANGED nonCycVars

\* repo_sync.py runs to the end of run()
sync_returns ==
    /\ mpc = "sync"
    /\ sync_run' = run_returns(sources_json)
    /\ returncode' = [returncode EXCEPT !.sync = ExitOfSync(sync_run')]
    /\ mpc' = "synced"
    /\ UNCHANGED <<sources_json, scripts, ncycles>>
    /\ UNCHANGED nonCycVars

\* repo_sync.py ends with an exception that run() does not catch
sync_raises ==
    /\ mpc = "sync"
    /\ sources_json = "ok"
    /\ sync_run' = "raised"
    /\ returncode' = [returncode EXCEPT !.sync = ExitOfSync(sync_run')]
    /\ mpc' = "synced"
    /\ UNCHANGED <<sources_json, scripts, ncycles>>
    /\ UNCHANGED nonCycVars

\* main, lines 38-43: sys.exit(1) when run_script gave False for
\* repo_sync.py; else repo_publish.py is started, or is not there
start_publish ==
    /\ mpc = "synced"
    /\ mpc' = IF ~run_script_ok(returncode.sync) THEN "exit1"
              ELSE IF script_missing("repo_publish.py") THEN "exit1"
              ELSE "publish"
    /\ UNCHANGED <<sources_json, scripts, sync_run, returncode, ncycles>>
    /\ UNCHANGED nonCycVars

\* repo_publish.py runs to its end
publish_ends ==
    /\ mpc = "publish"
    /\ returncode' = [returncode EXCEPT
                         !.publish = ExitOfPublish(sources_json)]
    /\ mpc' = "published"
    /\ UNCHANGED <<sources_json, scripts, sync_run, ncycles>>
    /\ UNCHANGED nonCycVars

\* main, lines 43-47
end_cycle ==
    /\ mpc = "published"
    /\ mpc' = IF run_script_ok(returncode.publish) THEN "exit0" ELSE "exit1"
    /\ UNCHANGED <<sources_json, scripts, sync_run, returncode, ncycles>>
    /\ UNCHANGED nonCycVars

\* cron starts the next cycle; the sources file may have changed
next_cycle ==
    /\ mpc \in {"exit0", "exit1"}
    /\ ncycles < MaxCycles
    /\ ncycles' = ncycles + 1
    /\ \E src \in SourcesStates : sources_json' = src
    /\ mpc' = "main"
    /\ sync_run' = "none"
    /\ returncode' = NoChild
    /\ UNCHANGED scripts
    /\ UNCHANGED nonCycVars

CycNext ==
    \/ start_sync
    \/ sync_returns
    \/ sync_raises
    \/ start_publish
    \/ publish_ends
    \/ end_cycle
    \/ next_cycle

-----------------------------------------------------------------------------
(* The specifications: the comparator, the runs of make_index and the      *)
(* signing of a file, each with the rest of the program at rest.           *)

\* no archive, no index, no run
IdxIdle == IdxInitOf([p \in AllPaths |-> NoFile], FALSE, FALSE)

\* no comparison asked for
VerIdle ==
    /\ vpc = "idle"
    /\ verA = [epoch |-> 0, version |-> <<"1">>]
    /\ verB = verA
    /\ cmpAB = NoResult
    /\ cmpBA = NoResult
    /\ rawstr = <<>>
    /\ parsed = NoParse

\* no record printed
CtlIdle ==
    /\ rpc = "idle"
    /\ record = NewPackage
    /\ rchecksum = {}
    /\ text = <<>>
    /\ reread = NotRead

\* no package set in use
SetIdle ==
    /\ spc = "idle"
    /\ via = "none"
    /\ pset = EmptyMap
    /\ before = EmptyMap
    /\ added = NoRecord
    /\ aopt = FALSE
    /\ aret = NoReturn
    /\ nadds = 0

\* no index being written
LocIdle ==
    /\ lpc = 0
    /\ locales_dir = FALSE
    /\ lroot = FALSE
    /\ lset = [i \in 1..Len(LocNameOrder) |-> NotHeld]
    /\ lplace = [i \in 1..Len(LocNameOrder) |-> InRoot]
    /\ lindex = <<>>
    /\ lerrors = 0

\* no sync run
SyncIdle == SyncInitOf({})

\* no container opened
ArIdle == ArInitOf(<<>>)

\* no section in use
SecIdle == SecInitOf([offset |-> 0, size |-> 0])

\* no build at work, no index in the directory
TmpIdle == TmpInitOf([b \in Builders |-> 1], NoInode)

\* an empty key directory
KeyIdle == KeyInitOf([n \in KeyNames |-> NoKeyFile])

\* no cycle started yet
CycIdle == CycInitOf("ok", {"repo_sync.py", "repo_publish.py"})

\* the rest of the program at rest, for each part
RestOfVersion ==
    IdxIdle /\ CryInit /\ CtlIdle /\ SetIdle /\ LocIdle /\ SyncIdle
        /\ UpdInit /\ ArIdle /\ SecIdle /\ TmpIdle /\ KeyIdle /\ CycIdle

RestOfIndex ==
    VerIdle /\ CryInit /\ CtlIdle /\ SetIdle /\ LocIdle /\ SyncIdle
        /\ UpdInit /\ ArIdle /\ SecIdle /\ TmpIdle /\ KeyIdle /\ CycIdle

RestOfCrypto ==
    VerIdle /\ IdxIdle /\ CtlIdle /\ SetIdle /\ LocIdle /\ SyncIdle
        /\ UpdInit /\ ArIdle /\ SecIdle /\ TmpIdle /\ KeyIdle /\ CycIdle

RestOfControl ==
    VerIdle /\ IdxIdle /\ CryInit /\ SetIdle /\ LocIdle /\ SyncIdle
        /\ UpdInit /\ ArIdle /\ SecIdle /\ TmpIdle /\ KeyIdle /\ CycIdle

RestOfPackages ==
    VerIdle /\ IdxIdle /\ CryInit /\ CtlIdle /\ LocIdle /\ SyncIdle
        /\ UpdInit /\ ArIdle /\ SecIdle /\ TmpIdle /\ KeyIdle /\ CycIdle

RestOfLocale ==
    VerIdle /\ IdxIdle /\ CryInit /\ CtlIdle /\ SetIdle /\ SyncIdle
        /\ UpdInit /\ ArIdle /\ SecIdle /\ TmpIdle /\ KeyIdle /\ CycIdle

RestOfSync ==
    VerIdle /\ IdxIdle /\ CryInit /\ CtlIdle /\ SetIdle /\ LocIdle
        /\ UpdInit /\ ArIdle /\ SecIdle /\ TmpIdle /\ KeyIdle /\ CycIdle

RestOfUpdate ==
    VerIdle /\ IdxIdle /\ CryInit /\ CtlIdle /\ SetIdle /\ LocIdle
        /\ SyncIdle /\ ArIdle /\ SecIdle /\ TmpIdle /\ KeyIdle /\ CycIdle

RestOfAr ==
    VerIdle /\ IdxIdle /\ CryInit /\ CtlIdle /\ SetIdle /\ LocIdle
        /\ SyncIdle /\ UpdInit /\ SecIdle /\ TmpIdle /\ KeyIdle /\ CycIdle

RestOfSection ==
    VerIdle /\ IdxIdle /\ CryInit /\ CtlIdle /\ SetIdle /\ LocIdle
        /\ SyncIdle /\ UpdInit /\ ArIdle /\ TmpIdle /\ KeyIdle /\ CycIdle

RestOfTemp ==
    VerIdle /\ IdxIdle /\ CryInit /\ CtlIdle /\ SetIdle /\ LocIdle
        /\ SyncIdle /\ UpdInit /\ ArIdle /\ SecIdle /\ KeyIdle /\ CycIdle

RestOfKeys ==
    VerIdle /\ IdxIdle /\ CryInit /\ CtlIdle /\ SetIdle /\ LocIdle
        /\ SyncIdle /\ UpdInit /\ ArIdle /\ SecIdle /\ TmpIdle /\ CycIdle

RestOfCycle ==
    VerIdle /\ IdxIdle /\ CryInit /\ CtlIdle /\ SetIdle /\ LocIdle
        /\ SyncIdle /\ UpdInit /\ ArIdle /\ SecIdle /\ TmpIdle /\ KeyIdle

InitVersion == VerInit /\ RestOfVersion

InitIndex == IdxInit /\ RestOfIndex

InitCrypto == CryInit /\ RestOfCrypto

InitControl == CtlInit /\ RestOfControl

InitPackages == SetInit /\ RestOfPackages

InitLocale == LocInit /\ RestOfLocale

InitSync == SyncInit /\ RestOfSync

InitUpdate == UpdInit /\ RestOfUpdate

InitAr == ArInit /\ RestOfAr

InitSection == SecInit /\ RestOfSection

InitTemp == TmpInit /\ RestOfTemp

InitKeys == KeyInit /\ RestOfKeys

InitCycle == CycInit /\ RestOfCycle

SpecVersion == InitVersion /\ [][VerNext]_vars

SpecIndex == InitIndex /\ [][IdxNext]_vars

SpecCrypto == InitCrypto /\ [][CryNext]_vars

SpecControl == InitControl /\ [][CtlNext]_vars

SpecPackages == InitPackages /\ [][SetNext]_vars

SpecLocale == InitLocale /\ [][LocNext]_vars

SpecSync == InitSync /\ [][SyncNext]_vars

SpecUpdate == InitUpdate /\ [][UpdNext]_vars

SpecAr == InitAr /\ [][ArNext]_vars

SpecSection == InitSection /\ [][SecNext]_vars

SpecTemp == InitTemp /\ [][TmpNext]_vars

SpecKeys == InitKeys /\ [][KeyNext]_vars

SpecCycle == InitCycle /\ [][CycNext]_vars

-----------------------------------------------------------------------------
(* Claims about the comparator *)

Sign(n) == IF n > 0 THEN 1 ELSE IF n < 0 THEN -1 ELSE 0

\* compare(x, y) returned, and returned a value at most 0
Leq(x, y) == compare(x, y).exc = "none" /\ compare(x, y).r <= 0

\* C1: Version.compare is a total order on Version values, the empty
\* version string included: every call returns -1, 0 or +1,
\* compare(A,A) = 0, compare(A,B) = -compare(B,A), and compare(A,B) <= 0
\* with compare(B,C) <= 0 implies compare(A,C) <= 0.
C1_TotalOrder ==
    vpc = "compared" =>
        /\ cmpAB.exc = "none" /\ cmpAB.r \in {-1, 0, 1}
        /\ cmpBA.exc = "none" /\ cmpAB.r = -cmpBA.r
        /\ (verA = verB => cmpAB.r = 0)
        /\ \A C \in Versions :
              (cmpAB.r <= 0 /\ Leq(verB, C)) => Leq(verA, C)

\* The laws of C1 on the pairs compare returns for: different epochs, or no
\* empty version string.
TotalOrderOnNonEmpty ==
    (/\ vpc = "compared"
     /\ verA.epoch = verB.epoch => (verA.version # <<>> /\ verB.version # <<>>)) =>
        /\ cmpAB.exc = "none" /\ cmpAB.r \in {-1, 0, 1}
        /\ cmpBA.exc = "none" /\ cmpAB.r = -cmpBA.r
        /\ (verA = verB => cmpAB.r = 0)
        /\ \A C \in {X \in Versions : X.version # <<>>} :
              (cmpAB.r <= 0 /\ Leq(verB, C)) => Leq(verA, C)

\* C2: tilde sorts before the end of the string: for every version string s,
\* the empty one included, Version(0, s).compare(Version(0, s + "~"))
\* returns +1.
C2_TildeBeforeEnd ==
    (/\ vpc = "compared"
     /\ verA.epoch = 0 /\ verB.epoch = 0
     /\ verB.version = verA.version \o <<"~">>) => cmpAB = Ret(1)

\* The statement of C2 for the strings s that are not empty.
TildeBeforeEndOnNonEmpty ==
    (/\ vpc = "compared"
     /\ verA.epoch = verB.epoch
     /\ verA.version # <<>>
     /\ verB.version = verA.version \o <<"~">>) => cmpAB = Ret(1)

\* the positions of s where a maximal run of digits starts
RunStarts(s) ==
    {i \in 1..Len(s) : s[i] \in Digits /\ (i = 1 \/ s[i - 1] \notin Digits)}

\* s with one more leading "0" in one of its digit runs
InsertZeros(s) ==
    {SubSeq(s, 1, i - 1) \o <<"0">> \o SubSeq(s, i, Len(s)) : i \in RunStarts(s)}

Min(a, b) == IF a < b THEN a ELSE b

\* the length of the longest common prefix of s and t
CommonLen(s, t) ==
    CHOOSE k \in 0..Min(Len(s), Len(t)) :
        /\ SubSeq(s, 1, k) = SubSeq(t, 1, k)
        /\ (k < Min(Len(s), Len(t)) => s[k + 1] # t[k + 1])

\* the end of the last non-digit among the first k characters of s
RunBase(s, k) ==
    CHOOSE j \in 0..k :
        /\ (j = 0 \/ s[j] \notin Digits)
        /\ \A i \in (j + 1)..k : s[i] \in Digits

\* the digits at the head of s
RECURSIVE LeadingDigits(_)
LeadingDigits(s) ==
    IF s # <<>> /\ Head(s) \in Digits
    THEN <<Head(s)>> \o LeadingDigits(Tail(s)) ELSE <<>>

\* a run of digits without its leading zeros: its significant digits
RECURSIVE Significant(_)
Significant(run) ==
    IF run # <<>> /\ Head(run) = "0" THEN Significant(Tail(run)) ELSE run

\* the maximal digit run of s in which s first differs from t (empty when
\* there is none)
DiffRunOf(s, t) ==
    LeadingDigits(SubSeq(s, RunBase(s, CommonLen(s, t)) + 1, Len(s)))

\* the significant digits of that run
DiffRun(s, t) == Significant(DiffRunOf(s, t))

\* a digit run starts in s where s first differs from t
HasDiffRun(s, t) == DiffRunOf(s, t) # <<>>

\* the difference of the first digits in which two runs of one length differ
FirstDigitDiff(x, y) ==
    LET i == CHOOSE k \in 1..Len(x) :
                 x[k] # y[k] /\ \A j \in 1..(k - 1) : x[j] = y[j]
    IN  DigitVal(x[i]) - DigitVal(y[i])

HasEpochPrefix(s) ==
    \E k \in 1..Len(s) : s[k] = ":" /\ \A j \in 1..(k - 1) : s[j] \in Digits

\* C4: the epoch dominates: for two versions with different epochs compare
\* returns the sign of the epoch difference whatever the version strings
\* (compare({1,"0.1"}, {0,"99.9"}) > 0), and a version string parsed by
\* parse_version without an "N:" prefix has epoch 0.
C4_EpochDominates ==
    /\ (vpc = "compared" /\ verA.epoch # verB.epoch) =>
           cmpAB = Ret(Sign(verA.epoch - verB.epoch))
    /\ (vpc = "parsed" /\ ~HasEpochPrefix(rawstr)) =>
           parsed = [exc |-> "none", epoch |-> 0, version |-> rawstr]

\* {1,"0.1"} has been compared with {0,"99.9"}
C4_Witness ==
    /\ vpc = "compared"
    /\ verA = [epoch |-> 1, version |-> <<"0", ".", "1">>]
    /\ verB = [epoch |-> 0, version |-> <<"9", "9", ".", "9">>]
    /\ cmpAB = Ret(1)

-----------------------------------------------------------------------------
(* Claims about the index build *)

\* the last run was a full run that ran to its end or to an exception, and
\* nothing has happened since
RunOver ==
    /\ pc = "idle"
    /\ nbuilds > 0
    /\ clean
    /\ ~opt_s
    /\ lastResult # "killed"

\* the valid archives of package n the last run found
GroupOf(n) ==
    {p \in AllPaths : start.dir[p].kind = "ok" /\ start.dir[p].package = n}

PairwiseDifferent(group) ==
    \A p \in group, q \in group :
        p # q => start.dir[p].version # start.dir[q].version

\* the archive the run found at p is greater than all others of the group
Greatest(p, group) ==
    \A q \in group \ {p} :
        LET c == compare_version(start.dir[p], start.dir[q])
        IN  c.exc = "none" /\ c.r > 0

\* the archive the run found at p lies in the morgue under its base name
InMorgue(p) ==
    /\ p.dir # "morgue" => dir[p].kind = "absent"
    /\ dir[P("morgue", p.base)].kind = "ok"
    /\ dir[P("morgue", p.base)].package = start.dir[p].package
    /\ dir[P("morgue", p.base)].version = start.dir[p].version

FoundCorrupt ==
    \E p \in AllPaths :
        start.dir[p].kind \in {"badmagic", "badheader", "badcontrol"}

\* C5: when a run without version keying and with archival has processed
\* archives of one name:architecture with pairwise different versions, the
\* package set holds the record of the greatest version and every other
\* archive of the group lies in <root>/morgue/ when the run ends.
C5_Displacement ==
    (RunOver /\ lastResult = "completed" /\ opt_m /\ ~opt_a) =>
        \A n \in {"foo", "bar"} :
            (GroupOf(n) # {} /\ PairwiseDifferent(GroupOf(n))) =>
                \A p \in GroupOf(n) :
                    IF Greatest(p, GroupOf(n))
                    THEN /\ <<n, "mips">> \in DOMAIN packages
                         /\ packages[<<n, "mips">>].version
                                = start.dir[p].version
                    ELSE InMorgue(p)

\* the same for the groups that lie in the root directory alone, while no
\* archive has been replaced
DisplacementInRoot ==
    (RunOver /\ lastResult = "completed" /\ opt_m /\ ~opt_a
        /\ nreplaced = 0) =>
        \A n \in {"foo", "bar"} :
            (/\ GroupOf(n) # {}
             /\ PairwiseDifferent(GroupOf(n))
             /\ \A p \in GroupOf(n) : p.dir = "root") =>
                \A p \in GroupOf(n) :
                    IF Greatest(p, GroupOf(n))
                    THEN /\ <<n, "mips">> \in DOMAIN packages
                         /\ packages[<<n, "mips">>].version
                                = start.dir[p].version
                    ELSE InMorgue(p)

\* C6: a run over a directory with an archive of bad magic, unparsable
\* member header or unreadable control.tar.gz completes, and its index has
\* a record for every valid archive of the directory.
C6_CorruptIsolation ==
    (RunOver /\ FoundCorrupt) =>
        /\ lastResult = "completed"
        /\ \A p \in AllPaths :
              start.dir[p].kind = "ok" =>
                  \E i \in 1..Len(indexFile.records) :
                      pkg_key(indexFile.records[i], opt_a)
                          = pkg_key(start.dir[p], opt_a)

\* an archive whose control.tar.gz member is missing is skipped, while no
\* archive has been replaced
MissingMemberSkipped ==
    (/\ RunOver
     /\ nreplaced = 0
     /\ ~FoundCorrupt
     /\ \E p \in AllPaths : start.dir[p].kind = "nomember") =>
        /\ lastResult = "completed"
        /\ \A p \in AllPaths :
              start.dir[p].kind = "ok" =>
                  \E i \in 1..Len(indexFile.records) :
                      pkg_key(indexFile.records[i], opt_a)
                          = pkg_key(start.dir[p], opt_a)

\* C7: the second of two completed runs with no archive replaced between
\* them, gzip having worked, leaves Packages and Packages.gz as the first
\* run wrote them.
C7_Idempotent ==
    (pc = "idle" /\ lastResult = "completed" /\ start.second
        /\ nfailed = 0) =>
        /\ indexFile = start.index
        /\ gzFile = start.gz

\* the same without archival
IdempotentWithoutMorgue ==
    (pc = "idle" /\ lastResult = "completed" /\ start.second /\ ~opt_m
        /\ nfailed = 0) =>
        /\ indexFile = start.index
        /\ gzFile = start.gz

\* every archive the run found is a valid one
AllValid == \A p \in AllPaths : start.dir[p].kind \in {"ok", "absent"}

\* C8: the second of two completed runs over valid archives, with no
\* archive replaced between them, parses no archive.
C8_NoReparse ==
    (pc = "idle" /\ lastResult = "completed" /\ start.second /\ AllValid) =>
        parses = {}

\* without version keying, the archives the previous index lists are not
\* parsed again
WinnersNotReparsed ==
    (pc = "idle" /\ lastResult = "completed" /\ start.second /\ ~opt_a) =>
        \A i \in 1..Len(start.index.records) :
            start.index.records[i].filename \notin parses

\* C9: in every history of runs and replacements, the record a completed
\* run emits for an archive is the record parsing the archive yields.
C9_CacheIsHint ==
    (RunOver /\ lastResult = "completed") =>
        \A i \in 1..Len(indexFile.records) :
            LET r == indexFile.records[i]
            IN  dir[r.filename].kind = "ok" =>
                    r = Package(r.filename, dir[r.filename]).pkg

\* C10: a run that was killed leaves Packages.stamps and the index
\* published before it, Packages and Packages.gz, as it found them.
C10_KillLeavesFiles ==
    (pc = "idle" /\ lastResult = "killed" /\ start.index.exists) =>
        /\ stampsFile = start.stamps
        /\ indexFile = start.index
        /\ gzFile = start.gz

\* the complete output of the run: the records of its package set
NewIndex == [exists |-> TRUE, records |-> IndexOf(packages)]

NewGz == [exists |-> TRUE, data |-> Gzip(IndexOf(packages))]

\* C11: at every point of a run, Packages holds the complete previous
\* index or the complete new one, and Packages.gz the complete previous
\* compressed index or the complete compression of the new one: a
\* temporary file is renamed only after its write, and for Packages.gz the
\* compression, succeeded.
C11_AtomicPublication ==
    /\ indexFile = start.index \/ indexFile = NewIndex
    /\ gzFile = start.gz \/ gzFile = NewGz

\* the same for Packages alone
PackagesAtomic == indexFile = start.index \/ indexFile = NewIndex

\* the same for Packages.gz while gzip has not failed
GzAtomicWhenGzipWorks ==
    nfailed = 0 => (gzFile = start.gz \/ gzFile = NewGz)

-----------------------------------------------------------------------------
(* Claims about signing *)

\* C12: with a key pair of generate_keypair, verify_file on the signature
\* sign_file wrote returns True under the matching public key, and returns
\* False, without raising, when one byte of the message was changed after
\* signing.
C12_SignVerifyRoundTrip ==
    (cpc = "verified" /\ generated) =>
        /\ cwas = "signed" => (cres.exc = "none" /\ cres.value = TRUE)
        /\ cwas = "mutated" => (cres.exc = "none" /\ cres.value = FALSE)

C12_Witness ==
    /\ cpc = "verified"
    /\ generated
    /\ cwas = "mutated"
    /\ Len(msgFile) = MaxMsgLen
    /\ msgFile # signedMsg
    /\ cres.exc = "none"
    /\ cres.value = FALSE

\* the round trip itself is reached
RoundTripReached ==
    ~(cpc = "verified" /\ generated /\ cwas = "signed"
        /\ cres.exc = "none" /\ cres.value = TRUE)

\* both files carry a fingerprint
HaveFingerprints ==
    /\ pubFile.header
    /\ pubFile.size \in {"pubkey", "seckey"}
    /\ sigFile.lines >= 2
    /\ sigFile.size = "sig"

\* verify_file raised the error of line 108
KeyMismatch == cres.exc = "ValueError" /\ cres.msg = "key id"

\* C13 as stated: verify_file raises the key-mismatch error whenever the
\* fingerprint of the signature differs from the fingerprint of the public
\* key.
C13_KeyMismatchAlways ==
    (/\ cpc = "verified"
     /\ HaveFingerprints
     /\ sigFile.fingerprint # pubFile.fingerprint) =>
        KeyMismatch

\* C13, amended: verify_file raises the key-mismatch error, and returns
\* neither True nor False, whenever the public key and the signature both
\* carry the algorithm tag "Ed" and their fingerprints differ, whether or
\* not the signature verifies under the key.
C13_KeyMismatch ==
    (/\ cpc = "verified"
     /\ HaveFingerprints
     /\ pubFile.pkalg = PK_ALGO
     /\ sigFile.pkalg = PK_ALGO
     /\ sigFile.fingerprint # pubFile.fingerprint) =>
        KeyMismatch

\* the key mismatch is raised for a signature that verifies under the key
C13_Witness ==
    /\ cpc = "verified"
    /\ HaveFingerprints
    /\ pubFile.pkalg = PK_ALGO
    /\ sigFile.pkalg = PK_ALGO
    /\ sigFile.fingerprint # pubFile.fingerprint
    /\ Ed25519Verify(pubFile.key[1], msgFile, sigFile.signature)
    /\ KeyMismatch

\* with differing fingerprints verify_file never returns
MismatchNeverReturns ==
    (/\ cpc = "verified"
     /\ HaveFingerprints
     /\ sigFile.fingerprint # pubFile.fingerprint) =>
        cres.exc = "ValueError"

\* C14: a secret-key file whose KDF fields tell of a password is rejected
\* by load_key and by sign_file, and no signature is made from its key
\* bytes.
C14_ProtectedKeyRejected ==
    (keyFile.size = "seckey" /\ keyFile.kdf # NoKdf) =>
        /\ load_key(keyFile).exc # "none"
        /\ cpc # "signed"

\* what the code does rejects is the algorithm tag
OtherAlgorithmRejected ==
    (keyFile.size = "seckey" /\ keyFile.pkalg # PK_ALGO) =>
        /\ load_key(keyFile) = ValueError("algorithm")
        /\ cpc \in {"ready", "failed", "pubgiven"}

-----------------------------------------------------------------------------
(* Claims about the control format *)

\* the recognized fields
Recognized == {PrintOrder[i] : i \in 1..Len(PrintOrder)}

\* a value a field of a control file can hold: no whitespace at its ends,
\* not empty, and every line after the first begins with a space
FieldValue(s) ==
    /\ s # <<>>
    /\ Head(s) \notin Whitespace
    /\ s[Len(s)] \notin Whitespace
    /\ \A i \in 1..Len(s) - 1 : s[i] = "\n" => s[i + 1] = " "
    /\ \A i \in 2..Len(s) : s[i] = "\n" => s[i - 1] \notin Whitespace

\* the record holds field values, non-zero sizes, and no checksum that
\* print is not asked for
WellFormed ==
    /\ \A a \in Recognized :
          /\ record[a].kind = "str" => FieldValue(record[a].s)
          /\ record[a].kind = "int" => record[a].n > 0
    /\ \A a \in {"md5", "sha256"} : record[a] # NoValue => a \in rchecksum

SameFields ==
    /\ reread.exc = "none"
    /\ \A a \in Recognized : Get(reread.pkg, a) = Get(record, a)

\* C15: read_control on the text Package.print gave yields a record equal
\* to the printed one in every recognized field, for a record of
\* well-formed field values.
C15_ControlRoundTrip == (rpc = "read" /\ WellFormed) => SameFields

\* the fields other than InstalledSize come back as they were
RoundTripWithoutInstalledSize ==
    (rpc = "read" /\ WellFormed /\ record["installed_size"] = NoValue) =>
        SameFields

\* a record with every other recognized field set is read back equal
FullRoundTripReached ==
    ~(/\ rpc = "read"
      /\ WellFormed
      /\ \A a \in Recognized \ {"installed_size"} : record[a] # NoValue
      /\ SameFields)

\* a description of two lines is read back equal
ContinuationReached ==
    ~(/\ rpc = "read"
      /\ record["description"] = Str(<<"a", "\n", " ", "a">>)
      /\ SameFields)

-----------------------------------------------------------------------------
(* Claims about the package set *)

\* C16: every record held in a package set has a package name and an
\* architecture.
C16_NameAndArchitecture ==
    \A k \in DOMAIN pset :
        pset[k].package # "" /\ pset[k].architecture # ""

\* read_packages_file accepts no record without a package name
NamePresentWhenRead ==
    via = "read_packages_file" =>
        \A k \in DOMAIN pset : pset[k].package # ""

\* a record without a name is held under the key of the package "None"
NamelessStoredReached ==
    ~(/\ spc = "added"
      /\ added.package = ""
      /\ <<"None", "mips">> \in DOMAIN pset
      /\ pset[<<"None", "mips">>] = added)

\* the identity key of the last call
LastKey == pkg_key(added, aopt)

\* the version of the record added compares greater than or equal to the
\* version of the record held before the call
GreaterOrEqual ==
    /\ compare_version(added, before[LastKey]).exc = "none"
    /\ compare_version(added, before[LastKey]).r >= 0

Stored ==
    /\ aret = [exc |-> "none", ret |-> 0]
    /\ pset = Put(before, LastKey, added)

Refused ==
    /\ aret = [exc |-> "none", ret |-> 1]
    /\ pset = before

\* C20: add_package stores the record and returns 0 if its key was absent
\* or its version compares greater than or equal to the incumbent's;
\* otherwise it returns 1 and leaves the package set unchanged.
C20_AddPackage ==
    spc \in {"added", "raised"} =>
        IF LastKey \notin DOMAIN before \/ GreaterOrEqual
        THEN Stored
        ELSE Refused

\* the versions of the last call are ones compare returns on
Comparable ==
    /\ added.version # <<>>
    /\ LastKey \in DOMAIN before => before[LastKey].version # <<>>

AddPackageWhenComparable ==
    (spc \in {"added", "raised"} /\ Comparable) =>
        IF LastKey \notin DOMAIN before \/ GreaterOrEqual
        THEN Stored
        ELSE Refused

\* on a tie the later record takes the place of the earlier one
TieReplacedReached ==
    ~(/\ spc = "added"
      /\ LastKey \in DOMAIN before
      /\ before[LastKey].version = <<"1">>
      /\ added.version = <<"0", "1">>
      /\ Stored)

\* an older record is refused
RefusedReached ==
    ~(/\ spc = "added"
      /\ LastKey \in DOMAIN before
      /\ before[LastKey].version = <<"2">>
      /\ added.version = <<"1">>
      /\ Refused)

\* add_package raised after it had stored the record under a new key
StoredAndRaisedReached ==
    ~(/\ spc = "raised"
      /\ LastKey \notin DOMAIN before
      /\ pset = Put(before, LastKey, added))

-----------------------------------------------------------------------------
(* Claims about locale routing *)

LocDone == lpc > Len(LocNameOrder)

Held == {i \in 1..Len(LocNameOrder) : lset[i] # NotHeld}

\* the locales the Depends field of a record references
ReferencedLocales(pkg) ==
    IF pkg.depends.set
    THEN {match_virtual(Split(pkg.depends.s, <<>>)[j]) :
             j \in 1..Len(Split(pkg.depends.s, <<>>))} \ {<<>>}
    ELSE {}

\* the locale the name of a record gives
NameLocales(pkg) == {match_by_pkg(pkg.package)} \ {<<>>}

LocalesFor(pkg) == ReferencedLocales(pkg) \cup NameLocales(pkg)

Listed(i) == \E j \in 1..Len(lindex) : lindex[j] = lset[i]

\* the archive was moved to the directory of one of its locales, and the
\* record is not in the index
Routed(i) ==
    /\ lplace[i].place = "locale"
    /\ lplace[i].locale \in LocalesFor(lset[i])
    /\ ~Listed(i)

\* the record is in the index and the archive lies where it lay
Indexed(i) == Listed(i) /\ lplace[i] = InRoot

\* C17: with a locale directory configured (and present), every package
\* whose Depends field references virtual-locale-<x> and every package
\* named locale-base-<x>, with a Depends field or without, has its archive
\* moved to the directory of <x> and is left out of the index; every other
\* package is listed in the index.
C17_LocaleRouting ==
    (LocDone /\ locales_dir /\ lroot) =>
        \A i \in Held :
            IF LocalesFor(lset[i]) # {} THEN Routed(i) ELSE Indexed(i)

\* every held package with a locale in its name has a Depends field
NamedHaveDepends ==
    \A i \in Held :
        NameLocales(lset[i]) # {} =>
            (lset[i].depends.set /\ lset[i].depends.s # <<>>)

\* the routing holds when the packages named locale-base-<x> have a
\* Depends field
RoutingWhenDependsPresent ==
    (LocDone /\ locales_dir /\ lroot /\ NamedHaveDepends) =>
        \A i \in Held :
            IF LocalesFor(lset[i]) # {} THEN Routed(i) ELSE Indexed(i)

\* without a locale directory configured every record is listed
AllListedWhenNotConfigured ==
    (LocDone /\ ~locales_dir) => \A i \in Held : Indexed(i)

\* a package is routed by its Depends field and another by its name
BothRoutedReached ==
    ~(/\ LocDone /\ locales_dir /\ lroot
      /\ Held = {1, 2}
      /\ Routed(1) /\ lplace[1].locale = <<"f", "r">>
      /\ Routed(2) /\ lplace[2].locale = <<"d", "e">>)

\* the directory above the locale directory is missing: the record is
\* neither listed nor moved
NeitherReached ==
    ~(/\ LocDone /\ locales_dir /\ ~lroot
      /\ \E i \in Held : ~Listed(i) /\ lplace[i] = InRoot)

-----------------------------------------------------------------------------
(* Claims about the sync run *)

NothingCollected ==
    /\ gc = "skipped"
    /\ gc_removed = [files |-> {}, dirs |-> {}]

\* C18: when a release query or an asset download of the run failed, the
\* garbage collection of the run is skipped and removes no file and no
\* directory.
C18_GcSkippedOnFetchError ==
    (gc # "pending" /\ (has_network_errors \/ download_failed)) =>
        NothingCollected

\* after a failed release query the garbage collection is skipped
GcSkippedOnQueryError ==
    (gc # "pending" /\ has_network_errors) => NothingCollected

\* the garbage collection ran after a failed download and removed a file
\* and a directory
CollectedAfterFailedDownloadReached ==
    ~(/\ gc = "ran"
      /\ download_failed
      /\ gc_removed.files # {}
      /\ gc_removed.dirs # {})

-----------------------------------------------------------------------------
(* Claims about the update cycles *)

\* the threads rebuilding the index of architecture a
Building(a) == {t \in Threads : threads[t].arch = a}

JobCyclesNeverOverlap ==
    Cardinality({t \in Running(threads) : threads[t].origin = "job"}) <= 1

\* a cycle of the job and a cycle of a request rebuild the same index
JobAndRequestBuildSameIndex ==
    \E a \in Archs : \E t, u \in Building(a) :
        threads[t].origin = "job" /\ threads[u].origin = "post"

\* two cycles started by requests rebuild the same index
TwoRequestsBuildSameIndex ==
    \E a \in Archs : \E t, u \in Building(a) :
        t # u /\ threads[t].origin = "post" /\ threads[u].origin = "post"

-----------------------------------------------------------------------------
(* Claims about version keying *)

\* the archive the run found at p has its own record under the key
\* name:architecture:version, the index lists that record, and the archive
\* lies where the run found it
KeptApart(p) ==
    /\ pkg_key(start.dir[p], TRUE) \in DOMAIN packages
    /\ packages[pkg_key(start.dir[p], TRUE)].filename = p
    /\ \E i \in 1..Len(indexFile.records) :
          indexFile.records[i] = Package(p, start.dir[p]).pkg
    /\ dir[p] = start.dir[p]

\* C21: when a completed run with version keying has processed two or more
\* archives of one name and architecture with pairwise different versions,
\* each of
\* them is held under its own key name:architecture:version, each is
\* listed in the index, and none of them has been moved to the morgue,
\* with archival or without.
C21_VersionsCoexist ==
    (RunOver /\ lastResult = "completed" /\ opt_a) =>
        \A n \in {"foo", "bar"} :
            (Cardinality(GroupOf(n)) >= 2 /\ PairwiseDifferent(GroupOf(n))) =>
                \A p \in GroupOf(n) : KeptApart(p)

\* the same for the runs in which every archive was parsed
VersionsCoexistWhenParsed ==
    (RunOver /\ lastResult = "completed" /\ opt_a
        /\ \A p \in AllPaths : start.dir[p].kind = "ok" => p \in parses) =>
        \A n \in {"foo", "bar"} :
            (Cardinality(GroupOf(n)) >= 2 /\ PairwiseDifferent(GroupOf(n))) =>
                \A p \in GroupOf(n) : KeptApart(p)

\* a run with version keying and archival has kept two versions of foo
C21_Witness ==
    /\ RunOver /\ lastResult = "completed" /\ opt_a /\ opt_m
    /\ Cardinality(GroupOf("foo")) >= 2
    /\ PairwiseDifferent(GroupOf("foo"))
    /\ \A p \in GroupOf("foo") : KeptApart(p)

-----------------------------------------------------------------------------
(* Claims about the ar container *)

\* the length of a member header
RECURSIVE HeaderLen(_)
HeaderLen(i) ==
    IF i = 0 THEN 0 ELSE ar_field_lens[i] + HeaderLen(i - 1)

\* where the data of member i of the container starts
RECURSIVE RegionStart(_, _)
RegionStart(ms, i) ==
    IF i = 1 THEN Len(ArMagic) + HeaderLen(Len(ar_field_lens))
    ELSE RegionStart(ms, i - 1) + ms[i - 1].size + (ms[i - 1].size % 2)
            + HeaderLen(Len(ar_field_lens))

Present(fname) == \E i \in 1..Len(members) : members[i].name = fname

PlaceOf(fname) == CHOOSE i \in 1..Len(members) : members[i].name = fname

\* C22: whatever calls of open were made before, in any order and with
\* repetitions, a call for the name of a member returns a section whose
\* offset and size are the data region of that member, and a call for a
\* name the container does not hold raises an error.
C22_ArLookup ==
    request.fname # <<>> =>
        IF Present(request.fname)
        THEN request.ret =
                FileSection(RegionStart(members, PlaceOf(request.fname)),
                            members[PlaceOf(request.fname)].size)
        ELSE request.ret.kind = "IOError"

\* a member that follows a member of odd size was found after a call for
\* an absent name had read the directory to its end
C22_Witness ==
    /\ nopens >= 2
    /\ arfile.directoryRead
    /\ Present(request.fname)
    /\ PlaceOf(request.fname) > 1
    /\ members[PlaceOf(request.fname) - 1].size % 2 = 1
    /\ request.ret.kind = "section"
    /\ request.ret.offset = RegionStart(members, PlaceOf(request.fname))

-----------------------------------------------------------------------------
(* Claims about the section of a file *)

\* after seek(k, 0), tell() returns k
TellAfterSeek ==
    (call.op = "seek" /\ call.whence = 0 /\ call.exc = "none") =>
        tell(section, upos) = call.arg

\* seek(0, 2) positions at the byte after the last byte of the member
EndAfterSeek ==
    (call.op = "seek" /\ call.whence = 2 /\ call.arg = 0) =>
        /\ call.exc = "none"
        /\ upos = section.offset + section.size

\* no read returns bytes beyond offset + size
ReadWithinSection ==
    (call.op = "read" /\ call.to > call.from) =>
        call.to <= section.offset + section.size

\* C23: after seek(k, 0) tell() returns k, seek(0, 2) positions at the last
\* byte of the member + 1, and no read, read() with no size included,
\* returns bytes of the underlying file beyond offset + size.
C23_SectionConfined == TellAfterSeek /\ EndAfterSeek /\ ReadWithinSection

\* what does hold: the positions seek and tell give
SeekAndTell == TellAfterSeek /\ EndAfterSeek

\* a read with a size, from inside the section, went beyond its end
SizedReadBeyondSection ==
    /\ call.op = "read"
    /\ call.arg > 0
    /\ call.from >= section.offset
    /\ call.from < section.offset + section.size
    /\ call.to > section.offset + section.size

-----------------------------------------------------------------------------
(* Claims about the generated key pair *)

\* the key files are the two files generate_keypair wrote
KeysAsGenerated ==
    /\ generated
    /\ cpc # "otherkey"
    /\ ~(cpc = "verified" /\ cwas = "otherkey")

\* the signature sign_file made with the secret key was verified with the
\* public key, over the message as signed or changed
PairVerified == cpc = "verified" /\ cwas \in {"signed", "mutated"}

\* C24: the two files generate_keypair writes carry the same fingerprint
\* and the algorithm tag "Ed", the KDF fields of the secret key are zero,
\* and the secret record is the seed followed by its public key, the key
\* of the public file; verify_file on a signature sign_file made with these
\* files raises no key-mismatch error.
C24_GeneratedPair ==
    KeysAsGenerated =>
        /\ keyFile.header /\ keyFile.size = "seckey"
        /\ pubFile.header /\ pubFile.size = "pubkey"
        /\ keyFile.fingerprint = pubFile.fingerprint
        /\ keyFile.fingerprint \in Fingerprints
        /\ keyFile.pkalg = "Ed" /\ pubFile.pkalg = "Ed"
        /\ keyFile.kdf = NoKdf
        /\ \E seed \in Seeds :
              /\ keyFile.key = <<seed, VerifyKeyOf(seed)>>
              /\ pubFile.key = <<VerifyKeyOf(seed)>>
        /\ PairVerified => ~KeyMismatch

\* a signature made and verified with the generated pair, the message
\* changed in between
C24_Witness ==
    /\ KeysAsGenerated
    /\ cpc = "verified"
    /\ cwas = "mutated"
    /\ cres.exc = "none"

-----------------------------------------------------------------------------
(* Claims about builds that run at the same time *)

\* the builds between their first open and their return
AtWork(b) == bpc[b] \in {"writing", "closed", "gzipped", "renamed"}

\* no file under a name of the index is held open for writing
Whole(name) == dirnames[name] = NoInode \/ writing[dirnames[name]] = {}

\* C25: two builds at work on one index path write to different temporary
\* filenames, and the files under the names Packages and Packages.gz are
\* never files a build is still writing.
C25_TempNamesApart ==
    /\ \A a, b \in Builders :
          a # b /\ AtWork(a) /\ AtWork(b) =>
              /\ tmp_packages_filename(a) # tmp_packages_filename(b)
              /\ tmp_gzip_filename(a) # tmp_gzip_filename(b)
    /\ Whole(packages_filename)
    /\ Whole(gzip_filename)

\* builds in processes of their own keep the names apart
ProcessesKeepApart ==
    (\A a, b \in Builders : a # b => bproc[a] # bproc[b]) =>
        C25_TempNamesApart

\* a thread has renamed the file another thread of its process is writing
RenamedWhileWritten ==
    \E a, b \in Builders :
        /\ bproc[a] = bproc[b]
        /\ bpc[a] = "renamed"
        /\ bpc[b] = "writing"
        /\ b \in writing[dirnames[packages_filename]]

-----------------------------------------------------------------------------
(* Claims about the archives in the morgue *)

\* C26: an archive under <root>/morgue is never in the package set, and no
\* index lists one; no archive of the morgue takes the place of a live one.
C26_MorgueStaysOut ==
    /\ \A k \in DOMAIN packages : packages[k].filename.dir # "morgue"
    /\ \A i \in 1..Len(indexFile.records) :
          indexFile.records[i].filename.dir # "morgue"

\* without archival nothing comes to lie in the morgue and nothing of it is
\* listed
MorgueUnusedWithoutArchival ==
    ~opt_m =>
        /\ C26_MorgueStaysOut
        /\ \A p \in AllPaths : p.dir = "morgue" => dir[p].kind = "absent"

\* a completed run has listed an archive of the morgue and moved the live
\* archive of its package there
LiveMovedForMorgue ==
    /\ pc = "idle"
    /\ lastResult = "completed"
    /\ \E i \in 1..Len(indexFile.records) :
          /\ indexFile.records[i].filename.dir = "morgue"
          /\ \E p \in AllPaths :
                /\ p.dir # "morgue"
                /\ start.dir[p].kind = "ok"
                /\ start.dir[p].package = indexFile.records[i].package
                /\ dir[p].kind = "absent"

-----------------------------------------------------------------------------
(* Claims about the key sign_file signs with *)

\* C27: sign_file given a key file that decodes to a public-key record
\* raises an error and writes no signature file.
C27_PublicKeyRefused ==
    (cpc = "pubgiven" /\ pubFile.size = "pubkey") =>
        /\ cres.exc # "none"
        /\ sigFile = NoSigFile

\* what sign_file wrote for a public-key record of the algorithm is signed
\* with the public key as the seed: it verifies under no key of the pair
SignedFromPublicKey ==
    (cpc = "pubgiven" /\ pubFile.pkalg = PK_ALGO) =>
        /\ cres.exc = "none"
        /\ sigFile.fingerprint = pubFile.fingerprint
        /\ sigFile.signature = Ed25519Sign(pubFile.key[1], msgFile)
        /\ ~Ed25519Verify(pubFile.key[1], msgFile, sigFile.signature)

\* a public-key record of another algorithm is refused
OtherPublicKeyRefused ==
    (cpc = "pubgiven" /\ pubFile.pkalg # PK_ALGO) =>
        /\ cres = ValueError("algorithm")
        /\ sigFile = NoSigFile

-----------------------------------------------------------------------------
(* Claims about the key files at start-up *)

\* secret.key and public.key carry one fingerprint where both exist
Matching(fs) ==
    (fs["secret.key"] # NoKeyFile /\ fs["public.key"] # NoKeyFile) =>
        fs["secret.key"].fingerprint = fs["public.key"].fingerprint

\* C28: when ensure_folders returns from a start-up that found files of one
\* key pair, a secret.key it found is as it was, and secret.key and
\* public.key carry the same fingerprint where both exist.
C28_KeysStayPaired ==
    (kpc = "returned" /\ OnePair(kstart)) =>
        /\ kstart["secret.key"] # NoKeyFile =>
              kfiles["secret.key"] = kstart["secret.key"]
        /\ Matching(kfiles)

\* the same for the start-ups that find a secret.key or no public.key
PairedUnlessPublicAlone ==
    (/\ kpc = "returned"
     /\ OnePair(kstart)
     /\ kstart["secret.key"] # NoKeyFile
            \/ kstart["public.key"] = NoKeyFile) =>
        /\ kstart["secret.key"] # NoKeyFile =>
              kfiles["secret.key"] = kstart["secret.key"]
        /\ Matching(kfiles)
        /\ OnePair(kfiles)

\* a start-up that found a public.key and no secret.key has left the old
\* public.key beside the secret.key of a new pair
OldPublicBesideNewSecret ==
    /\ kpc = "returned"
    /\ nstarts = 0
    /\ kstart["secret.key"] = NoKeyFile
    /\ kfiles["public.key"] = kstart["public.key"]
    /\ kfiles["secret.key"] # NoKeyFile
    /\ kfiles["secret.key"].fingerprint # kfiles["public.key"].fingerprint

-----------------------------------------------------------------------------
(* Claims about the outdated versions *)

\* every file the step of a source removes has a file of its package from
\* the release of the source beside it when the step is done
ReplacedWhenRemoved ==
    \A f \in sfiles \ sfiles' :
        /\ Sources[spos].asset \in sfiles'
        /\ Sources[spos].asset.dir = f.dir
        /\ Sources[spos].asset.prefix = f.prefix

\* C29: the run deletes a stored .ipk as an outdated version of a package
\* only while a file of that package from the current release is in the
\* directory, whether the download of the new asset worked or not.
C29_OutdatedOnlyWhenReplaced ==
    [][spos' = spos + 1 => ReplacedWhenRemoved]_vars

\* the same for the steps whose download worked or was not needed
ReplacedAfterDownload == [][SyncSource => ReplacedWhenRemoved]_vars

\* a failed download has left the directory without any file of a package
\* that had one
PackageLostToFailedDownload ==
    /\ download_failed
    /\ spos = 2
    /\ IpkFile("mips", "zed", "1_mips.ipk") \in sfiles
    /\ \A f \in sfiles : f.prefix # "foo"

-----------------------------------------------------------------------------
(* Claims about the full update cycle *)

\* repo_publish.py has been started in this cycle
PublicationStarted == mpc \in {"publish", "published"} \/ returncode.publish # NotEnded

\* C30: publication is started only after synchronization has ended, and
\* never when synchronization failed: not when repo_sync.py could not be
\* run or raised, and not when repo_sync.run() returned False.
C30_PublishOnlyAfterGoodSync ==
    PublicationStarted =>
        /\ returncode.sync # NotEnded
        /\ sync_run = "True"

\* publication is started only after repo_sync.py has ended with status 0
PublishOnlyAfterStatusZero ==
    PublicationStarted => returncode.sync = Exit(0)

\* repo_publish.py runs although run() returned False
PublishedAfterFalse ==
    /\ mpc = "published"
    /\ sync_run = "False"
    /\ sources_json = "missing"

=============================================================================
